---- MODULE Spec2Model ----
(***************************************************************************)
(* Repository list synchronisation and windowing engine of gh-manager-cli. *)
(*                                                                         *)
(* SpecVL : the useVirtualList hook (window with hysteresis refs) and the  *)
(*          inline `windowed` memo of RepoList.                            *)
(* Spec   : RepoList's three page accumulators (owned/organization,        *)
(*          search, starred), the freshness store, the normalized object   *)
(*          cache and the mutation handlers.                               *)
(***************************************************************************)
EXTENDS Integers, Sequences, FiniteSets, TLC

VARIABLES
    \* ---- useVirtualList (src/src/ui/hooks/useVirtualList.ts) ----
    vlCount,            \* items.length passed to the hook
    vlCursor,           \* cursor passed to the hook
    vlContainerHeight,  \* containerHeight passed to the hook
    vlItemHeight,       \* itemHeight passed to the hook
    vlOverscan,         \* overscan passed to the hook
    lastCursorRef,      \* lastCursorRef.current
    lastWindowRef,      \* lastWindowRef.current
    vlWindow,           \* {start, end} returned by the memo
    vlReused,           \* TRUE when the last render returned lastWindowRef.current
    windowedRL          \* RepoList's `windowed` memo over the same inputs

vlVars == <<vlCount, vlCursor, vlContainerHeight, vlItemHeight, vlOverscan,
            lastCursorRef, lastWindowRef, vlWindow, vlReused, windowedRL>>

VARIABLES
    \* ---- RepoList (src/src/ui/views/RepoList.tsx) ----
    items,            \* [source -> list]: items, searchItems, starredItems
    endCursor,        \* [source -> cursor]: endCursor, searchEndCursor, starredEndCursor
    hasNextPage,      \* [source -> BOOLEAN]
    totalCount,       \* [source -> Nat]
    flags,            \* loading, sortingLoading, refreshing, loadingMore, searchLoading, starredLoading
    error,            \* the error state shown to the user
    cursor,           \* the highlighted row
    starsMode,
    filter,           \* the text of the filter input
    visibilityFilter,
    sortDir,
    searchTimer,      \* searchDebounceTimeoutRef: the pending debounced search
    modal,            \* the open mutation modal and its target
    busy,             \* deleting, archiving, starring, unstarring, changingVisibility
    mounted,          \* prefsLoaded
    \* ---- collaborators ----
    inflight,         \* page fetches awaiting the transport
    pendingMut,       \* mutation requests awaiting the transport
    cache,            \* Apollo's normalized Repository:<id> records
    fetchedAt,        \* the freshness store: key -> time of the last mark
    metaReadable,     \* FALSE while reads and writes of the freshness store's file fail
    now,              \* the clock, in ms
    remote,           \* the repositories as GitHub holds them
    \* ---- bookkeeping ----
    ev,               \* what the last step did
    used              \* how many fetches, mutations, clock ticks and key presses were made

rlVars == <<items, endCursor, hasNextPage, totalCount, flags, error, cursor, starsMode,
            filter, visibilityFilter, sortDir, searchTimer, modal, busy, mounted>>
envVars == <<inflight, pendingMut, cache, fetchedAt, now, remote>>
mainVars == <<rlVars, envVars, metaReadable, ev, used>>

VARIABLES
    \* ---- the query of the view, for the freshness keys ----
    query,            \* the QuerySpecification the view holds
    prevQuery         \* the one it held before the last change

keyVars == <<query, prevQuery>>

VARIABLES
    \* ---- App (src/src/ui/views/RepoList.tsx 2770-3310): authentication ----
    appState,         \* the AppState union: mode, token, sessionTokenOrigin, ...
    storedToken,      \* what getStoredToken returns
    launch,           \* inlineToken, inlineTokenEphemeral and the environment's token
    validations,      \* the runs of the validation effect that have not settled
    oauthRuns,        \* the runs of the OAuth effect that have not ended
    authUsed,         \* how many runs of each effect were started
    appEv             \* history: the last step of the App and the run it belongs to

appVars == <<appState, storedToken, launch, validations, oauthRuns, authUsed, appEv>>

VARIABLES
    \* ---- the inputs and the outcome of one run of the infinite-scroll effect ----
    pf,               \* cursor, loadedCount, hasNextPage, loading, and the decision taken
    \* ---- the last call of getRepositoryFromCache ----
    rr,               \* its id, whether it threw, and the value it returned
    \* ---- useModalState (src/src/ui/hooks/useModalState.ts) ----
    ms                \* isOpen, target, loading, error, and the last function called

hookVars == <<pf, rr, ms, appVars>>

vars == <<vlVars, mainVars, keyVars, hookVars>>

\* ------------------------------------------------------------------ bounds
NumRepos == 3        \* repositories on the server
PageSize == 2        \* PAGE_SIZE (REPOS_PER_FETCH, 1..50)
MaxInFlight == 2     \* page fetches awaiting the transport at once
MaxFetches == 2      \* page fetches started in one run
MaxMutations == 1    \* mutation requests started in one run
MaxPendingMut == 1   \* mutation requests awaiting the transport at once
MaxTicks == 1        \* clock advances in one run
MaxUserSteps == 2    \* key presses that change the view in one run
MaxCount == 7
MaxHeight == 6
MaxItemHeight == 2
MaxOverscan == 2
MaxLoaded == 15      \* items a list holds when the infinite-scroll effect runs

\* ------------------------------------------------------------------ helpers
Max(a, b) == IF a >= b THEN a ELSE b
Min(a, b) == IF a <= b THEN a ELSE b
Abs(a) == IF a < 0 THEN -a ELSE a

\* ------------------------------------------------------------------ useVirtualList
HysteresisThreshold == 3

VisibleCount(containerHeight, itemHeight) == Max(1, containerHeight \div itemHeight)

\* mutant: startPos without "don't scroll past the end"
StartPosUnclamped(cur, total, visibleCount, overscan) ==
    Max(0, cur - (visibleCount \div 2) - overscan)

\* startPos / endPos of the cursor-centred window
StartPos(cur, total, visibleCount, overscan) ==
    Min(Max(0, cur - (visibleCount \div 2) - overscan), Max(0, total - visibleCount))

EndPos(cur, total, visibleCount, overscan) ==
    Min(total, StartPos(cur, total, visibleCount, overscan) + visibleCount + (overscan * 2))

\* mutant: the window is reused whenever the cursor is inside it
ReuseWhenInsideWindow(cur, lastCursor, lastWindow) ==
    cur >= lastWindow.start /\ cur < lastWindow.end

\* the reuse test of the memo
ReusePrevious(cur, lastCursor, lastWindow) ==
    /\ Abs(cur - lastCursor) < HysteresisThreshold
    /\ cur >= lastWindow.start
    /\ cur < lastWindow.end

\* mutant: a reusing call remembers the cursor it was called with
ComputeWindowTracksCursor(cur, total, visibleCount, overscan, lastCursor, lastWindow) ==
    IF visibleCount >= total
      THEN [win |-> [start |-> 0, end |-> total],
            lastCursor |-> lastCursor, lastWindow |-> lastWindow, reused |-> FALSE]
    ELSE IF ReusePrevious(cur, lastCursor, lastWindow)
      THEN [win |-> lastWindow,
            lastCursor |-> cur, lastWindow |-> lastWindow, reused |-> TRUE]
    ELSE LET w == [start |-> StartPos(cur, total, visibleCount, overscan),
                   end |-> EndPos(cur, total, visibleCount, overscan)]
         IN [win |-> w, lastCursor |-> cur, lastWindow |-> w, reused |-> FALSE]

\* One evaluation of the memo body: the window returned and the refs afterwards.
ComputeWindow(cur, total, visibleCount, overscan, lastCursor, lastWindow) ==
    IF visibleCount >= total
      THEN [win |-> [start |-> 0, end |-> total],
            lastCursor |-> lastCursor, lastWindow |-> lastWindow, reused |-> FALSE]
    ELSE IF ReusePrevious(cur, lastCursor, lastWindow)
      THEN [win |-> lastWindow,
            lastCursor |-> lastCursor, lastWindow |-> lastWindow, reused |-> TRUE]
    ELSE LET w == [start |-> StartPos(cur, total, visibleCount, overscan),
                   end |-> EndPos(cur, total, visibleCount, overscan)]
         IN [win |-> w, lastCursor |-> cur, lastWindow |-> w, reused |-> FALSE]

\* RepoList's inline window: buffer 2 before the cursor, one buffer after
WindowedBuffer == 2

Windowed(total, cur, visibleRepos) ==
    IF visibleRepos >= total THEN [start |-> 0, end |-> total]
    ELSE LET start == Min(Max(0, cur - (visibleRepos \div 2) - WindowedBuffer),
                          Max(0, total - visibleRepos))
         IN [start |-> start, end |-> Min(total, start + visibleRepos + WindowedBuffer)]

\* ------------------------------------------------------------------ data
Sources == {"owned", "search", "starred"}
Ids == 1..NumRepos
SortDirs == {"asc", "desc"}
VisibilityFilters == {"all", "public", "private"}
Visibilities == {"PUBLIC", "PRIVATE", "INTERNAL"}
Null == 0                       \* a null pagination cursor
NoStamp == 0 - 1                  \* no freshness record
None == [kind |-> "none"]       \* no modal, no timer, no error, no fetch
Gone == [id |-> 0]              \* no such repository / no cached record

\* texts the user can leave in the filter input
Texts == {<<>>, <<"a", "b", "c">>, <<" ", "a", "b", "d">>}
\* names a repository can be renamed to
NewNames == {<<"z">>}

MIN_SEARCH_LENGTH == 3
DEFAULT_APOLLO_TTL_MS == 1800000    \* 30 * 60 * 1000
SEARCH_TTL_MS == 90000              \* 90 * 1000
\* the delay of a repeated fetch that is well inside both TTLs: 10 seconds
RepeatDelay == 10000
\* clock advances: ten seconds, just past the search TTL, just past the list TTL
TickSteps == {RepeatDelay, 90001, 1800001}

RECURSIVE TrimStart(_)
TrimStart(t) == IF t # <<>> /\ Head(t) = " " THEN TrimStart(Tail(t)) ELSE t

RECURSIVE TrimEnd(_)
TrimEnd(t) == IF t # <<>> /\ t[Len(t)] = " " THEN TrimEnd(SubSeq(t, 1, Len(t) - 1)) ELSE t

\* String.prototype.trim
Trim(t) == TrimEnd(TrimStart(t))

\* String.prototype.includes
Includes(text, q) == \E i \in 1..(Len(text) - Len(q) + 1) : SubSeq(text, i, i + Len(q) - 1) = q

NameWithOwner(r) == <<"o", "/">> \o r.name

\* the repositories GitHub holds when the program starts
RemoteInit(i) ==
    [id |-> i,
     name |-> IF i = 1 THEN <<"a", "b", "c">> ELSE <<"a", "b", "d">>,
     isArchived |-> FALSE,
     visibility |-> IF i % 2 = 0 THEN "PRIVATE" ELSE "PUBLIC",
     isPrivate |-> (i % 2 = 0),
     isFork |-> (i = NumRepos),
     \* defaultBranchRef.target.history.totalCount of the repository and of its parent
     commits |-> 1,
     parentCommits |-> IF i = NumRepos THEN 2 ELSE Null,
     viewerHasStarred |-> (i % 2 = 1),
     stargazerCount |-> 1,
     updatedAt |-> i]

IdsOf(s) == {s[i].id : i \in 1..Len(s)}

\* Array.prototype.sort with the comparator of filteredAndSorted (stable)
RECURSIVE InsertBy(_, _, _)
InsertBy(r, s, dir) ==
    IF s = <<>> THEN <<r>>
    ELSE IF (IF dir = "asc" THEN r.updatedAt < Head(s).updatedAt
                            ELSE r.updatedAt > Head(s).updatedAt)
         THEN <<r>> \o s
         ELSE <<Head(s)>> \o InsertBy(r, Tail(s), dir)

RECURSIVE SortByUpdated(_, _)
SortByUpdated(s, dir) ==
    IF s = <<>> THEN <<>>
    ELSE InsertBy(s[Len(s)], SortByUpdated(SubSeq(s, 1, Len(s) - 1), dir), dir)

\* ------------------------------------------------------------------ the server
RECURSIVE RemoteList(_)
\* the existing repositories with id <= n, by id
RemoteList(n) ==
    IF n = 0 THEN <<>>
    ELSE RemoteList(n - 1) \o (IF remote[n] = Gone THEN <<>> ELSE <<remote[n]>>)

\* viewer.repositories(orderBy, privacy)
ServerOwned(dir, privacy) ==
    LET all == SortByUpdated(RemoteList(NumRepos), dir)
    IN SelectSeq(all, LAMBDA r : privacy = "none" \/ r.visibility = privacy)

\* search(query: "<text> user:<viewer> in:name,description fork:true")
ServerSearch(q) == SelectSeq(RemoteList(NumRepos), LAMBDA r : Includes(NameWithOwner(r), q))

\* viewer.starredRepositories: the most recently starred first (here: the highest id)
\* (the StarredRepos query asks for no commit history: defaultBranchRef { name },
\* parent { nameWithOwner })
ServerStarred ==
    LET starred == SelectSeq(RemoteList(NumRepos), LAMBDA r : r.viewerHasStarred)
    IN [i \in 1..Len(starred) |->
            [starred[Len(starred) + 1 - i] EXCEPT !.commits = Null, !.parentCommits = Null]]

\* one page of a connection: nodes, pageInfo and totalCount
PageOf(list, after, first) ==
    LET nodes == SubSeq(list, after + 1, Min(Len(list), after + first))
    IN [nodes |-> nodes,
        endCursor |-> IF nodes = <<>> THEN Null ELSE after + Len(nodes),
        hasNextPage |-> after + first < Len(list),
        totalCount |-> Len(list)]

\* ------------------------------------------------------------------ RepoList: derived values
SearchActiveOf(sm, f) == ~sm /\ Len(Trim(f)) >= MIN_SEARCH_LENGTH
SearchActive == SearchActiveOf(starsMode, filter)

IsPrivateOrInternal(r) == r.visibility = "PRIVATE" \/ r.visibility = "INTERNAL"

\* `filtered`: the local visibility and text filter over items
Filtered(its, vf, f) ==
    LET byVis == IF vf = "private" THEN SelectSeq(its, IsPrivateOrInternal) ELSE its
        q == Trim(f)
    IN IF q # <<>> THEN SelectSeq(byVis, LAMBDA r : Includes(NameWithOwner(r), q)) ELSE byVis

FilteredAndSorted(its, vf, f, sd) == SortByUpdated(Filtered(its, vf, f), sd)

FilteredSearchItems(its, vf) ==
    IF vf = "private" THEN SelectSeq(its, IsPrivateOrInternal)
    ELSE IF vf = "public" THEN SelectSeq(its, LAMBDA r : r.visibility = "PUBLIC")
    ELSE its

FilteredStarredItems(its, f) ==
    IF Trim(f) = <<>> THEN its ELSE SelectSeq(its, LAMBDA r : Includes(NameWithOwner(r), f))

VisibleItemsOf(its, sm, f, vf, sd) ==
    IF sm THEN FilteredStarredItems(its["starred"], f)
    ELSE IF SearchActiveOf(sm, f) THEN FilteredSearchItems(its["search"], vf)
    ELSE FilteredAndSorted(its["owned"], vf, f, sd)

VisibleItems == VisibleItemsOf(items, starsMode, filter, visibilityFilter, sortDir)

\* the repository under the cursor, or Gone
RepoAtCursor == IF cursor >= 0 /\ cursor < Len(VisibleItems) THEN VisibleItems[cursor + 1] ELSE Gone

\* "Keep cursor in range when data changes": the effect runs when one of
\* searchActive, searchItems.length, items.length changed
ClampCursor(c, its, sm, f) ==
    LET sa == SearchActiveOf(sm, f)
    IN IF <<sa, Len(its["search"]), Len(its["owned"])>>
            # <<SearchActive, Len(items["search"]), Len(items["owned"])>>
       THEN Min(c, Max(0, (IF sa THEN Len(its["search"]) ELSE Len(its["owned"])) - 1))
       ELSE c

\* ------------------------------------------------------------------ freshness store
makeApolloKey(sd) == [kind |-> "repos", q |-> <<>>, sortDir |-> sd]
makeSearchKey(q, sd) == [kind |-> "search", q |-> q, sortDir |-> sd]

Keys == {makeApolloKey(sd) : sd \in SortDirs}
        \cup {makeSearchKey(Trim(t), sd) : t \in Texts, sd \in SortDirs}

\* mutant: a record never expires
isFreshNeverExpires(key, ttlMs) == metaReadable /\ fetchedAt[key] # NoStamp

\* a failed read counts as "not fresh"
isFresh(key, ttlMs) ==
    metaReadable /\ fetchedAt[key] # NoStamp /\ ~(now - fetchedAt[key] > ttlMs)

\* a failed write leaves the store as it was (it is not fatal)
markFetched(store, key) == IF metaReadable THEN [store EXCEPT ![key] = now] ELSE store

\* purgeApolloCacheFiles unlinks the cache file and the TTL meta file
PurgedMeta == [k \in Keys |-> NoStamp]

\* ---- the keys as the call sites build them
SortKeys == {"updated", "name"}
OwnerContexts == {"personal", "acme"}
AffiliationSets == {<<"OWNER">>, <<"OWNER", "COLLABORATOR">>}
QueryTexts == {<<"a", "b", "c">>, <<"a", "b", "d">>}
PageSizes == {PageSize, PageSize + 1}

\* what the view asks for: the state the fetch functions close over
QuerySpecs ==
    [src : {"owned", "search"}, ownerContext : OwnerContexts, q : QueryTexts,
     sortKey : SortKeys, sortDir : SortDirs, pageSize : PageSizes,
     forkTracking : BOOLEAN, affiliations : AffiliationSets,
     visibilityFilter : VisibilityFilters]

DefaultQuery ==
    [src |-> "owned", ownerContext |-> "personal", q |-> <<"a", "b", "c">>,
     sortKey |-> "updated", sortDir |-> "desc", pageSize |-> PageSize,
     forkTracking |-> TRUE, affiliations |-> <<"OWNER">>, visibilityFilter |-> "all"]

\* ownerContext !== 'personal' ? ownerContext.login : undefined
OrgLogin(qs) == IF qs.ownerContext # "personal" THEN qs.ownerContext ELSE "undefined"

\* orgLogin ? `org:${orgLogin}` : 'personal'
OwnerContextField(qs) ==
    IF OrgLogin(qs) # "undefined" THEN "org:" \o OrgLogin(qs) ELSE "personal"

\* ownerAffiliations.join(',')
RECURSIVE JoinComma(_)
JoinComma(a) ==
    IF a = <<>> THEN "" ELSE IF Len(a) = 1 THEN a[1] ELSE a[1] \o "," \o JoinComma(Tail(a))

\* the privacy argument fetchPage derives from the visibility filter
PrivacyOf(vf) == IF vf = "public" THEN "PUBLIC" ELSE IF vf = "private" THEN "PRIVATE" ELSE "undefined"

\* the object fetchPage and the effects pass to makeApolloKey
ApolloKeyArgs(qs) ==
    [viewer |-> "viewer", sortKey |-> qs.sortKey, sortDir |-> qs.sortDir,
     pageSize |-> qs.pageSize, forkTracking |-> qs.forkTracking,
     ownerContext |-> OwnerContextField(qs), affiliations |-> JoinComma(qs.affiliations)]

\* the object fetchSearchPage, the sort effect and the debounce timer pass to makeSearchKey
SearchKeyArgs(qs) ==
    [viewer |-> "viewer", q |-> Trim(qs.q), sortKey |-> qs.sortKey, sortDir |-> qs.sortDir,
     pageSize |-> qs.pageSize, forkTracking |-> qs.forkTracking]

\* the key of a query: the builder tells any two argument objects apart
FreshnessKey(qs) ==
    IF qs.src = "search" THEN [kind |-> "search", args |-> SearchKeyArgs(qs)]
    ELSE [kind |-> "repos", args |-> ApolloKeyArgs(qs)]

\* the arguments that reach the transport and select the result set:
\* fetchViewerReposPageUnified(token, PAGE_SIZE, after, orderBy, forkTracking, policy,
\*     ownerAffiliations, orgLogin, privacy) and
\* searchRepositoriesUnified(token, viewerLogin, query.trim(), PAGE_SIZE, after,
\*     orderBy.field, orderBy.direction, forkTracking, policy, orgLogin)
TransportRequest(qs) ==
    IF qs.src = "search"
    THEN [fn |-> "searchRepositoriesUnified", viewer |-> "viewer", q |-> Trim(qs.q),
          first |-> qs.pageSize, sortKey |-> qs.sortKey, sortDir |-> qs.sortDir,
          forkTracking |-> qs.forkTracking, affiliations |-> <<>>,
          orgLogin |-> OrgLogin(qs), privacy |-> "undefined"]
    ELSE [fn |-> "fetchViewerReposPageUnified", viewer |-> "viewer", q |-> <<>>,
          first |-> qs.pageSize, sortKey |-> qs.sortKey, sortDir |-> qs.sortDir,
          forkTracking |-> qs.forkTracking, affiliations |-> qs.affiliations,
          orgLogin |-> OrgLogin(qs), privacy |-> PrivacyOf(qs.visibilityFilter)]

\* ------------------------------------------------------------------ page fetches
NoPage == [nodes |-> <<>>, endCursor |-> Null, hasNextPage |-> FALSE, totalCount |-> 0]

EvBase == [kind |-> "init", src |-> "none", after |-> Null, reset |-> FALSE,
           policy |-> "none", origin |-> "none", freshAtIssue |-> FALSE,
           superseded |-> FALSE, page |-> NoPage, marked |-> FALSE, key |-> None,
           raised |-> <<>>, rejected |-> "none", op |-> "none", id |-> 0]

\* policy ?? (after ? 'network-only' : 'cache-first')
ResolvePolicy(policy, after) ==
    IF policy # "default" THEN policy
    ELSE IF after # Null THEN "network-only" ELSE "cache-first"

\* the request of one fetchPage / fetchSearchPage / fetchStarredRepositories call,
\* with the values its closure holds (sd, vf); policy is the caller's argument
Fetch(src, after, reset, isSortChange, policy, q, sd, vf, origin) ==
    [src |-> src, after |-> after, reset |-> reset, isSortChange |-> isSortChange,
     policy |-> IF src = "starred" THEN "network-only" ELSE ResolvePolicy(policy, after),
     q |-> q, sortDir |-> sd,
     privacy |-> IF vf = "public" THEN "PUBLIC" ELSE IF vf = "private" THEN "PRIVATE" ELSE "none",
     origin |-> origin,
     freshAtIssue |-> IF src = "search" THEN isFresh(makeSearchKey(q, sd), SEARCH_TTL_MS)
                      ELSE IF src = "owned" THEN isFresh(makeApolloKey(sd), DEFAULT_APOLLO_TTL_MS)
                      ELSE FALSE,
     superseded |-> FALSE]

IsFirstPage(f) == f.reset \/ f.after = Null

\* mutant: the freshness store is not consulted
PolicyAlwaysCacheFirst(key, ttlMs) == "cache-first"

\* mutant: a failed read leaves the `let policy = 'cache-first'` of the call site
PolicyKeepsDefaultOnFailure(key, ttlMs) ==
    IF ~metaReadable \/ isFresh(key, ttlMs) THEN "cache-first" ELSE "network-only"

\* the policy chosen from the freshness store
PolicyFor(key, ttlMs) == IF isFresh(key, ttlMs) THEN "cache-first" ELSE "network-only"

\* a call is added to the calls in flight; an older call for the same source is
\* superseded when the new one restarts at page 1
Issue(calls, f) ==
    Append([i \in 1..Len(calls) |->
               IF calls[i].src = f.src /\ IsFirstPage(f)
               THEN [calls[i] EXCEPT !.superseded = TRUE] ELSE calls[i]], f)

\* the loading flag a call raises
RaiseFlags(fl, f) ==
    IF f.src = "search" THEN [fl EXCEPT !.searchLoading = TRUE]
    ELSE IF f.src = "starred" THEN [fl EXCEPT !.starredLoading = TRUE]
    ELSE IF f.isSortChange THEN [fl EXCEPT !.sortingLoading = TRUE]
    ELSE IF f.after # Null /\ ~f.reset THEN [fl EXCEPT !.loadingMore = TRUE]
    ELSE [fl EXCEPT !.loading = TRUE]

\* mutant: finally does not reset `refreshing`
ClearFlagsKeepsRefreshing(fl, f) ==
    IF f.src = "search" THEN [fl EXCEPT !.searchLoading = FALSE]
    ELSE IF f.src = "starred" THEN [fl EXCEPT !.starredLoading = FALSE]
    ELSE [fl EXCEPT !.loading = FALSE, !.sortingLoading = FALSE, !.loadingMore = FALSE]

\* the flags a finished call clears (finally)
ClearFlags(fl, f) ==
    IF f.src = "search" THEN [fl EXCEPT !.searchLoading = FALSE]
    ELSE IF f.src = "starred" THEN [fl EXCEPT !.starredLoading = FALSE]
    ELSE [fl EXCEPT !.loading = FALSE, !.sortingLoading = FALSE,
                    !.refreshing = FALSE, !.loadingMore = FALSE]

CanIssue(n) == used.fetches + n <= MaxFetches /\ Len(inflight) + n <= MaxInFlight

Without(calls, i) == SubSeq(calls, 1, i - 1) \o SubSeq(calls, i + 1, Len(calls))

\* ---- the transport
Outcomes == {"ok", "network", "rate_limit"}

\* mutant: when both attempts fail, the first attempt's error is the one thrown
fetchViewerReposPageRethrowsFirst(apollo, octokit) ==
    IF apollo = "ok" THEN [ok |-> TRUE, via |-> "apollo", raised |-> <<>>, rejected |-> "none"]
    ELSE IF octokit = "ok"
         THEN [ok |-> TRUE, via |-> "octokit", raised |-> <<apollo>>, rejected |-> "none"]
         ELSE [ok |-> FALSE, via |-> "octokit", raised |-> <<apollo, octokit>>, rejected |-> apollo]

\* fetchViewerReposPageUnified: Apollo first, Octokit when Apollo throws
fetchViewerReposPageUnified(apollo, octokit) ==
    IF apollo = "ok" THEN [ok |-> TRUE, via |-> "apollo", raised |-> <<>>, rejected |-> "none"]
    ELSE IF octokit = "ok"
         THEN [ok |-> TRUE, via |-> "octokit", raised |-> <<apollo>>, rejected |-> "none"]
         ELSE [ok |-> FALSE, via |-> "octokit", raised |-> <<apollo, octokit>>, rejected |-> octokit]

\* searchRepositoriesUnified: Apollo only, rethrows
searchRepositoriesUnified(apollo) ==
    IF apollo = "ok" THEN [ok |-> TRUE, via |-> "apollo", raised |-> <<>>, rejected |-> "none"]
    ELSE [ok |-> FALSE, via |-> "apollo", raised |-> <<apollo>>, rejected |-> apollo]

\* getStarredRepositories: Octokit only, rethrows
getStarredRepositories(octokit) ==
    IF octokit = "ok" THEN [ok |-> TRUE, via |-> "octokit", raised |-> <<>>, rejected |-> "none"]
    ELSE [ok |-> FALSE, via |-> "octokit", raised |-> <<octokit>>, rejected |-> octokit]

\* the page the server answers a request with
ServerPage(f) ==
    IF f.src = "owned" THEN PageOf(ServerOwned(f.sortDir, f.privacy), f.after, PageSize)
    ELSE IF f.src = "search" THEN PageOf(ServerSearch(f.q), f.after, PageSize)
    ELSE PageOf(ServerStarred, f.after, PageSize)

\* Apollo normalizes the nodes of a response into Repository:<id> records
CacheWrite(c, nodes) ==
    [i \in Ids |-> IF i \in IdsOf(nodes)
                   THEN nodes[CHOOSE k \in 1..Len(nodes) : nodes[k].id = i]
                   ELSE c[i]]

\* ------------------------------------------------------------------ RepoList: fetching
Ev(kind) == [EvBase EXCEPT !.kind = kind]

EvFetch(kind, f) ==
    [EvBase EXCEPT !.kind = kind, !.src = f.src, !.after = f.after, !.reset = f.reset,
                   !.policy = f.policy, !.origin = f.origin,
                   !.freshAtIssue = f.freshAtIssue, !.superseded = f.superseded]

RECURSIVE IssueAll(_, _)
IssueAll(calls, fs) == IF fs = <<>> THEN calls ELSE IssueAll(Issue(calls, Head(fs)), Tail(fs))

RECURSIVE RaiseAll(_, _)
RaiseAll(fl, fs) == IF fs = <<>> THEN fl ELSE RaiseAll(RaiseFlags(fl, Head(fs)), Tail(fs))

\* the calls a handler and the effects it triggers make, on top of the flags fl
Calls(fs, fl, keys) ==
    /\ CanIssue(Len(fs))
    /\ inflight' = IssueAll(inflight, fs)
    /\ flags' = RaiseAll(fl, fs)
    /\ used' = [used EXCEPT !.fetches = @ + Len(fs), !.keys = @ + keys]

\* a key press that changes the view and starts no fetch
KeyPress == used' = [used EXCEPT !.keys = @ + 1]

ClearSearchState ==
    /\ items' = [items EXCEPT !["search"] = <<>>]
    /\ endCursor' = [endCursor EXCEPT !["search"] = Null]
    /\ hasNextPage' = [hasNextPage EXCEPT !["search"] = FALSE]
    /\ totalCount' = [totalCount EXCEPT !["search"] = 0]

UserCanAct == mounted /\ error = None /\ modal = None /\ used.keys < MaxUserSteps

\* preferences are loaded (none stored: the defaults stay), then the context
\* effect fetches page 1
Mount ==
    /\ ~mounted
    /\ LET f == Fetch("owned", Null, TRUE, FALSE,
                      PolicyFor(makeApolloKey(sortDir), DEFAULT_APOLLO_TTL_MS),
                      <<>>, sortDir, visibilityFilter, "context")
       IN /\ Calls(<<f>>, flags, 0)
          /\ ev' = EvFetch("mount", f)
    /\ mounted' = TRUE
    /\ cursor' = 0
    /\ UNCHANGED <<items, endCursor, hasNextPage, totalCount, error, starsMode, filter,
                   visibilityFilter, sortDir, searchTimer, modal, busy,
                   pendingMut, cache, fetchedAt, now, remote, vlVars, keyVars, hookVars, metaReadable>>

\* the calls of the "sorting changes" effect, for the new direction sd
SortEffectCalls(sd) ==
    IF ~SearchActive
    THEN IF Len(items["owned"]) > 0
         THEN <<Fetch("owned", Null, TRUE, TRUE,
                      PolicyFor(makeApolloKey(sd), DEFAULT_APOLLO_TTL_MS),
                      <<>>, sd, visibilityFilter, "sort")>>
         ELSE <<>>
    ELSE IF ~flags.searchLoading /\ Len(Trim(filter)) >= MIN_SEARCH_LENGTH
         THEN <<Fetch("search", Null, TRUE, FALSE,
                      PolicyFor(makeSearchKey(Trim(filter), sd), SEARCH_TTL_MS),
                      Trim(filter), sd, visibilityFilter, "sort")>>
         ELSE <<>>

\* SortDirectionModal onSelect, then the effect on [sortKey, sortDir]
ChangeSortDir ==
    /\ UserCanAct
    /\ \E sd \in SortDirs \ {sortDir} :
         /\ sortDir' = sd
         /\ Calls(SortEffectCalls(sd), flags, 1)
    /\ cursor' = 0
    /\ ev' = Ev("sort")
    /\ UNCHANGED <<items, endCursor, hasNextPage, totalCount, error, starsMode, filter,
                   visibilityFilter, searchTimer, modal, busy, mounted,
                   pendingMut, cache, fetchedAt, now, remote, vlVars, keyVars, hookVars, metaReadable>>

\* the calls of the "visibility filter changes" effect, for the new filter vf
VisibilityEffectCalls(vf, sm, f) ==
    IF vf = visibilityFilter THEN <<>>
    ELSE IF ~SearchActiveOf(sm, f)
    THEN IF Len(items["owned"]) > 0
         THEN <<Fetch("owned", Null, TRUE, TRUE, "network-only", <<>>, sortDir, vf, "visibility")>>
         ELSE <<>>
    ELSE IF ~flags.searchLoading /\ Len(Trim(f)) >= MIN_SEARCH_LENGTH
         THEN <<Fetch("search", Null, TRUE, FALSE, "network-only", Trim(f), sortDir, vf, "visibility")>>
         ELSE <<>>

\* VisibilityModal onSelect, then the effect on [visibilityFilter]
ChangeVisibilityFilter ==
    /\ UserCanAct
    /\ ~starsMode
    /\ \E vf \in VisibilityFilters \ {visibilityFilter} :
         /\ visibilityFilter' = vf
         /\ Calls(VisibilityEffectCalls(vf, starsMode, filter), flags, 1)
    /\ cursor' = 0
    /\ ev' = Ev("visibilityFilter")
    /\ UNCHANGED <<items, endCursor, hasNextPage, totalCount, error, starsMode, filter,
                   sortDir, searchTimer, modal, busy, mounted,
                   pendingMut, cache, fetchedAt, now, remote, vlVars, keyVars, hookVars, metaReadable>>

\* 'R': purge the persisted cache files, then fetchPage(null, true, true, undefined, 'network-only')
Refresh ==
    /\ mounted
    /\ error # None \/ modal = None
    /\ Calls(<<Fetch("owned", Null, TRUE, TRUE, "network-only", <<>>, sortDir, visibilityFilter, "refresh")>>,
             [flags EXCEPT !.refreshing = TRUE, !.sortingLoading = TRUE], 0)
    /\ fetchedAt' = PurgedMeta
    /\ cursor' = 0
    /\ ev' = Ev("refresh")
    /\ UNCHANGED <<items, endCursor, hasNextPage, totalCount, error, starsMode, filter,
                   visibilityFilter, sortDir, searchTimer, modal, busy, mounted,
                   pendingMut, cache, now, remote, vlVars, keyVars, hookVars, metaReadable>>

\* TextInput onChange: schedule the debounced search, or clear the results
TypeFilter ==
    /\ UserCanAct
    /\ \E val \in Texts \ {filter} :
         /\ filter' = val
         /\ IF Len(Trim(val)) >= 3
            THEN /\ searchTimer' = [kind |-> "timer", q |-> Trim(val), sortDir |-> sortDir,
                                    vf |-> visibilityFilter]
                 /\ UNCHANGED <<items, endCursor, hasNextPage, totalCount>>
            ELSE /\ searchTimer' = None
                 /\ ClearSearchState
         /\ cursor' = ClampCursor(cursor, items', starsMode, val)
    /\ KeyPress
    /\ ev' = Ev("type")
    /\ UNCHANGED <<flags, error, starsMode, visibilityFilter, sortDir, modal, busy, mounted,
                   inflight, pendingMut, cache, fetchedAt, now, remote, vlVars, keyVars, hookVars, metaReadable>>

\* the debounce timer fires with the closure of the render that scheduled it
SearchTimerFires ==
    /\ searchTimer # None
    /\ Calls(<<Fetch("search", Null, TRUE, FALSE,
                     PolicyFor(makeSearchKey(searchTimer.q, searchTimer.sortDir), SEARCH_TTL_MS),
                     searchTimer.q, searchTimer.sortDir, searchTimer.vf, "typing")>>, flags, 0)
    /\ searchTimer' = None
    /\ ev' = Ev("timer")
    /\ UNCHANGED <<items, endCursor, hasNextPage, totalCount, error, cursor, starsMode, filter,
                   visibilityFilter, sortDir, modal, busy, mounted,
                   pendingMut, cache, fetchedAt, now, remote, vlVars, keyVars, hookVars, metaReadable>>

\* Esc while the filter input has the focus
EscapeInFilterMode ==
    /\ UserCanAct
    /\ filter # <<>>
    /\ filter' = <<>>
    /\ ClearSearchState
    /\ cursor' = 0
    /\ KeyPress
    /\ ev' = Ev("escape")
    /\ UNCHANGED <<flags, error, starsMode, visibilityFilter, sortDir, searchTimer, modal, busy,
                   mounted, inflight, pendingMut, cache, fetchedAt, now, remote, vlVars, keyVars, hookVars, metaReadable>>

\* Esc while viewing search results or filtered stars
EscapeFilter ==
    /\ UserCanAct
    /\ SearchActive \/ (starsMode /\ Len(Trim(filter)) > 0)
    /\ filter' = <<>>
    /\ IF ~starsMode THEN ClearSearchState
       ELSE UNCHANGED <<items, endCursor, hasNextPage, totalCount>>
    /\ cursor' = 0
    /\ KeyPress
    /\ ev' = Ev("escape")
    /\ UNCHANGED <<flags, error, starsMode, visibilityFilter, sortDir, searchTimer, modal, busy,
                   mounted, inflight, pendingMut, cache, fetchedAt, now, remote, vlVars, keyVars, hookVars, metaReadable>>

\* Shift+S: enter or leave stars mode
ToggleStarsMode ==
    /\ UserCanAct
    /\ starsMode' = ~starsMode
    /\ filter' = <<>>
    /\ ClearSearchState
    /\ cursor' = 0
    /\ IF ~starsMode
       THEN /\ visibilityFilter' = "all"
            /\ Calls(<<Fetch("starred", Null, TRUE, FALSE, "default", <<>>, sortDir, visibilityFilter, "stars")>>
                     \o VisibilityEffectCalls("all", TRUE, <<>>), flags, 1)
       ELSE /\ KeyPress
            /\ UNCHANGED <<visibilityFilter, inflight, flags>>
    /\ ev' = Ev("stars")
    /\ UNCHANGED <<error, sortDir, searchTimer, modal, busy, mounted,
                   pendingMut, cache, fetchedAt, now, remote, vlVars, keyVars, hookVars, metaReadable>>

\* mutant: the product is rounded to the nearest integer
prefetchThresholdRounded(n) == (n * 8 + 5) \div 10

\* floor(visibleItems.length * PREFETCH_THRESHOLD), PREFETCH_THRESHOLD = 0.8
prefetchThreshold(n) == (n * 8) \div 10

NearEnd == Len(VisibleItems) > 0 /\ cursor >= prefetchThreshold(Len(VisibleItems))

\* one branch of the effect: the source's loading flag is clear, it has a next
\* page, and nearEnd holds for the cursor and visibleItems.length
shouldPrefetch(cur, loadedCount, hasNext, isLoading) ==
    /\ ~isLoading
    /\ hasNext
    /\ loadedCount > 0 /\ cur >= prefetchThreshold(loadedCount)

\* the call of the infinite-scroll effect, if it makes one
PrefetchCalls ==
    IF starsMode
    THEN IF shouldPrefetch(cursor, Len(VisibleItems), hasNextPage["starred"], flags.starredLoading)
         THEN <<Fetch("starred", endCursor["starred"], FALSE, FALSE, "default", <<>>,
                      sortDir, visibilityFilter, "prefetch")>>
         ELSE <<>>
    ELSE IF SearchActive
    THEN IF shouldPrefetch(cursor, Len(VisibleItems), hasNextPage["search"], flags.searchLoading)
         THEN <<Fetch("search", endCursor["search"], FALSE, FALSE, "default", Trim(filter),
                      sortDir, visibilityFilter, "prefetch")>>
         ELSE <<>>
    ELSE IF shouldPrefetch(cursor, Len(VisibleItems), hasNextPage["owned"],
                           flags.loading \/ flags.loadingMore)
         THEN <<Fetch("owned", endCursor["owned"], FALSE, FALSE, "default", <<>>,
                      sortDir, visibilityFilter, "prefetch")>>
         ELSE <<>>

Prefetch ==
    /\ mounted
    /\ PrefetchCalls # <<>>
    /\ Calls(PrefetchCalls, flags, 0)
    /\ ev' = EvFetch("prefetch", PrefetchCalls[1])
    /\ UNCHANGED <<items, endCursor, hasNextPage, totalCount, error, cursor, starsMode, filter,
                   visibilityFilter, sortDir, searchTimer, modal, busy, mounted,
                   pendingMut, cache, fetchedAt, now, remote, vlVars, keyVars, hookVars, metaReadable>>

\* arrow keys and G
MoveCursor ==
    /\ UserCanAct
    /\ \E c \in {Min(cursor + 1, Len(VisibleItems) - 1), Max(cursor - 1, 0), Len(VisibleItems) - 1} :
         /\ c # cursor
         /\ cursor' = c
    /\ KeyPress
    /\ ev' = Ev("move")
    /\ UNCHANGED <<items, endCursor, hasNextPage, totalCount, flags, error, starsMode, filter,
                   visibilityFilter, sortDir, searchTimer, modal, busy, mounted,
                   envVars, vlVars, keyVars, hookVars, metaReadable>>

\* time passes
Tick ==
    /\ used.ticks < MaxTicks
    /\ \E d \in TickSteps : now' = now + d
    /\ used' = [used EXCEPT !.ticks = @ + 1]
    /\ ev' = Ev("tick")
    /\ UNCHANGED <<rlVars, inflight, pendingMut, cache, fetchedAt, remote, vlVars, keyVars, hookVars, metaReadable>>

\* ------------------------------------------------------------------ RepoList: a fetch completes
\* mutant: the page is appended whatever reset says
AccumulateAlwaysAppends(prev, f, nodes) == prev \o nodes

\* setItems(prev => (reset || !after ? page.nodes : [...prev, ...page.nodes]))
Accumulate(prev, f, nodes) == IF f.reset \/ f.after = Null THEN nodes ELSE prev \o nodes

\* mutant: every page of the owned and search lists marks the key
MarksFetchedOnEveryPage(f) == f.src # "starred"

\* "Mark fetched time for TTL tracking (first page only)": if (!after) markFetched(key)
MarksFetched(f) == f.src # "starred" /\ f.after = Null

\* mutant: every mark goes to the key of the owned list
KeyOfIgnoresQuery(f) == makeApolloKey(f.sortDir)

\* the key fetchPage / fetchSearchPage build before markFetched
KeyOf(f) == IF f.src = "search" THEN makeSearchKey(f.q, f.sortDir) ELSE makeApolloKey(f.sortDir)

\* the error state a failed fetch leaves
ErrorOf(f, e) ==
    IF f.src = "owned"
    THEN [kind |-> "error", text |-> "Failed to load repositories. Check network or token.", cause |-> "none"]
    ELSE IF f.src = "search" THEN [kind |-> "error", text |-> "Failed to search: ", cause |-> e]
    ELSE [kind |-> "error", text |-> "", cause |-> e]

\* the transport's answer to call f for the outcomes of its attempts
Transport(f, apollo, octokit) ==
    IF f.src = "owned" THEN fetchViewerReposPageUnified(apollo, octokit)
    ELSE IF f.src = "search" THEN searchRepositoriesUnified(apollo)
    ELSE getStarredRepositories(octokit)

\* the try block after the await: the page is applied to the source's state
ApplyPage(f, page, r) ==
    /\ items' = [items EXCEPT ![f.src] = Accumulate(@, f, page.nodes)]
    /\ endCursor' = [endCursor EXCEPT ![f.src] = page.endCursor]
    /\ hasNextPage' = [hasNextPage EXCEPT ![f.src] = page.hasNextPage]
    /\ totalCount' = [totalCount EXCEPT ![f.src] = page.totalCount]
    /\ fetchedAt' = IF MarksFetched(f) THEN markFetched(fetchedAt, KeyOf(f)) ELSE fetchedAt
    /\ error' = IF f.src = "starred" THEN error ELSE None
    /\ cache' = IF r.via = "apollo" THEN CacheWrite(cache, page.nodes) ELSE cache
    /\ cursor' = ClampCursor(cursor, items', starsMode, filter)

FetchSucceeds ==
    \E i \in 1..Len(inflight) : \E apollo \in Outcomes, octokit \in Outcomes :
        LET f == inflight[i]
            r == Transport(f, apollo, octokit)
            page == ServerPage(f)
        IN /\ r.ok
           /\ ApplyPage(f, page, r)
           /\ flags' = ClearFlags(flags, f)
           /\ inflight' = Without(inflight, i)
           /\ ev' = [EvFetch("fetchOk", f) EXCEPT !.page = page, !.raised = r.raised,
                         !.marked = MarksFetched(f), !.key = KeyOf(f)]
           /\ UNCHANGED <<starsMode, filter, visibilityFilter, sortDir, searchTimer, modal, busy,
                          mounted, pendingMut, now, remote, used, vlVars, keyVars, hookVars, metaReadable>>

\* mutant: a failed fetch empties the list it was for
CatchBlockClearsList(f, e) ==
    /\ error' = ErrorOf(f, e)
    /\ items' = [items EXCEPT ![f.src] = <<>>]
    /\ endCursor' = [endCursor EXCEPT ![f.src] = Null]
    /\ hasNextPage' = [hasNextPage EXCEPT ![f.src] = FALSE]
    /\ totalCount' = [totalCount EXCEPT ![f.src] = 0]
    /\ UNCHANGED <<cursor, cache, fetchedAt>>

\* the catch block: only the error state changes
CatchBlock(f, e) ==
    /\ error' = ErrorOf(f, e)
    /\ UNCHANGED <<items, endCursor, hasNextPage, totalCount, cursor, cache, fetchedAt>>

FetchFails ==
    \E i \in 1..Len(inflight) : \E apollo \in Outcomes, octokit \in Outcomes :
        LET f == inflight[i]
            r == Transport(f, apollo, octokit)
        IN /\ ~r.ok
           /\ CatchBlock(f, r.rejected)
           /\ flags' = ClearFlags(flags, f)
           /\ inflight' = Without(inflight, i)
           /\ ev' = [EvFetch("fetchFail", f) EXCEPT !.raised = r.raised, !.rejected = r.rejected]
           /\ UNCHANGED <<starsMode, filter, visibilityFilter, sortDir, searchTimer, modal, busy,
                          mounted, pendingMut, now, remote, used, vlVars, keyVars, hookVars, metaReadable>>

\* ------------------------------------------------------------------ RepoList: mutations
MutKinds == {"delete", "archive", "star", "unstar", "visibility", "rename", "sync"}

\* the handlers that return early while their request is in flight
\* (executeArchive, handleStar, handleUnstar, handleVisibilityChange, executeSync)
GuardedKinds == {"archive", "star", "unstar", "visibility", "sync"}
\* the handlers that raise a flag (setDeleting, setArchiving, ...)
FlaggedKinds == MutKinds \ {"rename"}

\* Del, Ctrl+A, Ctrl+S, U, Ctrl+V, Ctrl+R: the modal opens on the repository under the cursor
OpenModal ==
    /\ UserCanAct
    /\ RepoAtCursor # Gone
    /\ \E k \in MutKinds :
         /\ k = "unstar" => starsMode
         /\ k = "star" => ~starsMode
         \* repo.isFork && repo.parent: every fork has a parent
         /\ k = "sync" => RepoAtCursor.isFork
         /\ modal' = [kind |-> k, target |-> RepoAtCursor]
         /\ busy' = IF k \in {"archive", "star", "unstar", "sync"} THEN [busy EXCEPT ![k] = FALSE] ELSE busy
    /\ KeyPress
    /\ ev' = Ev("open")
    /\ UNCHANGED <<items, endCursor, hasNextPage, totalCount, flags, error, cursor, starsMode,
                   filter, visibilityFilter, sortDir, searchTimer, mounted, envVars, vlVars, keyVars, hookVars, metaReadable>>

\* Esc / C: the modal closes; a request in flight keeps running
CancelModal ==
    /\ modal # None
    /\ modal' = None
    /\ busy' = IF modal.kind \in FlaggedKinds THEN [busy EXCEPT ![modal.kind] = FALSE] ELSE busy
    /\ ev' = Ev("cancel")
    /\ UNCHANGED <<items, endCursor, hasNextPage, totalCount, flags, error, cursor, starsMode,
                   filter, visibilityFilter, sortDir, searchTimer, mounted, envVars, used, vlVars, keyVars, hookVars, metaReadable>>

\* the request a confirmed modal sends, with the values the handler's closure holds
Request(k, target, arg) ==
    [kind |-> k, target |-> target, arg |-> arg,
     capLen |-> IF k = "delete" THEN Len(VisibleItems)
                ELSE IF k = "unstar" THEN Len(items["starred"])
                ELSE IF k = "visibility"
                     THEN (IF SearchActive THEN Len(items["search"]) ELSE Len(items["owned"]))
                ELSE 0,
     capSearchActive |-> SearchActive,
     capVisFilter |-> visibilityFilter]

ArgsOf(k) == IF k = "visibility" THEN Visibilities ELSE IF k = "rename" THEN NewNames ELSE {"none"}

\* confirmDeleteNow, executeArchive, handleStar, handleUnstar, handleVisibilityChange,
\* executeRename up to their await
ConfirmMutation ==
    /\ modal # None
    /\ modal.kind \in GuardedKinds => ~busy[modal.kind]
    /\ used.mutations < MaxMutations
    /\ Len(pendingMut) < MaxPendingMut
    /\ \E arg \in ArgsOf(modal.kind) :
         pendingMut' = Append(pendingMut, Request(modal.kind, modal.target, arg))
    /\ busy' = IF modal.kind \in FlaggedKinds THEN [busy EXCEPT ![modal.kind] = TRUE] ELSE busy
    /\ used' = [used EXCEPT !.mutations = @ + 1]
    /\ ev' = [Ev("confirm") EXCEPT !.id = modal.target.id]
    /\ UNCHANGED <<items, endCursor, hasNextPage, totalCount, flags, error, cursor, starsMode,
                   filter, visibilityFilter, sortDir, searchTimer, modal, mounted,
                   inflight, cache, fetchedAt, now, remote, vlVars, keyVars, hookVars, metaReadable>>

\* new Date().toISOString() at the time of a sync: later than every updatedAt
SyncedAt == NumRepos + 1

\* executeSync's updatedRepo: the modal's target with updatedAt set and, when both
\* commit counts are known, the fork's count made equal to its parent's
\* (forkTracking is always true: setForkTracking(true))
UpdatedRepo(target) ==
    IF target.isFork /\ target.parentCommits # Null /\ target.commits # Null
    THEN [target EXCEPT !.updatedAt = SyncedAt, !.commits = target.parentCommits]
    ELSE [target EXCEPT !.updatedAt = SyncedAt]

\* ---- what GitHub does with a confirmed request
RemoteAfter(req) ==
    LET id == req.target.id
        r == remote[id]
    IN IF r = Gone THEN remote
       ELSE IF req.kind = "delete" THEN [remote EXCEPT ![id] = Gone]
       ELSE IF req.kind = "archive"
            THEN [remote EXCEPT ![id] = [r EXCEPT !.isArchived = ~req.target.isArchived]]
       ELSE IF req.kind = "visibility"
            THEN [remote EXCEPT ![id] = [r EXCEPT !.visibility = req.arg,
                                                  !.isPrivate = (req.arg # "PUBLIC")]]
       ELSE IF req.kind = "rename" THEN [remote EXCEPT ![id] = [r EXCEPT !.name = req.arg]]
       ELSE IF req.kind = "sync"
            THEN [remote EXCEPT ![id] = [r EXCEPT !.updatedAt = SyncedAt, !.commits = r.parentCommits]]
       ELSE IF req.kind = "unstar" \/ (req.kind = "star" /\ req.target.viewerHasStarred)
            THEN (IF r.viewerHasStarred
                  THEN [remote EXCEPT ![id] = [r EXCEPT !.viewerHasStarred = FALSE,
                                                        !.stargazerCount = @ - 1]]
                  ELSE remote)
       ELSE (IF ~r.viewerHasStarred
             THEN [remote EXCEPT ![id] = [r EXCEPT !.viewerHasStarred = TRUE,
                                                   !.stargazerCount = @ + 1]]
             ELSE remote)

\* ---- the cache updates (src/src/services/github/cache.ts)
\* cache.evict + cache.gc
updateCacheAfterDelete(c, id) == [c EXCEPT ![id] = Gone]
\* cache.modify: nothing happens for an id the cache does not hold
updateCacheAfterArchive(c, id, isArchived) ==
    IF c[id] = Gone THEN c ELSE [c EXCEPT ![id] = [@ EXCEPT !.isArchived = isArchived]]
updateCacheAfterVisibilityChange(c, id, visibility) ==
    IF c[id] = Gone THEN c
    ELSE [c EXCEPT ![id] = [@ EXCEPT !.visibility = visibility,
                                     !.isPrivate = (visibility = "PRIVATE")]]
\* mutant: the rename also stamps the record as updated
updateCacheAfterRenameStampsRecord(c, id, newName) ==
    IF c[id] = Gone THEN c
    ELSE [c EXCEPT ![id] = [@ EXCEPT !.name = newName, !.updatedAt = SyncedAt]]

updateCacheAfterRename(c, id, newName) ==
    IF c[id] = Gone THEN c ELSE [c EXCEPT ![id] = [@ EXCEPT !.name = newName]]

\* the fields of the UpdatedRepository / CachedRepository fragments (visibility
\* and viewerHasStarred are not among them)
FragmentFields == {"id", "name", "updatedAt", "isPrivate", "isArchived", "isFork",
                   "stargazerCount", "commits", "parentCommits"}

\* the data holds the field: a node of a query without commit history lacks
\* defaultBranchRef.target and, for a fork, parent.defaultBranchRef
HasField(r, f) ==
    /\ f \in DOMAIN r
    /\ f = "commits" => r.commits # Null
    /\ f = "parentCommits" => ~(r.isFork /\ r.parentCommits = Null)

\* cache.writeFragment with the UpdatedRepository fragment: the fragment's fields
\* that the data holds are merged into Repository:<id>, and the record is
\* created when the cache does not hold it
updateCacheWithRepository(c, repository) ==
    LET old == c[repository.id]
        writes == {f \in FragmentFields : HasField(repository, f)}
    IN  [c EXCEPT ![repository.id] =
            IF old = Gone THEN [f \in writes |-> repository[f]]
            ELSE [f \in DOMAIN old \cup writes |-> IF f \in writes THEN repository[f] ELSE old[f]]]

\* cache.readFragment with the CachedRepository fragment: null when the cache
\* has no Repository:<id> or the record lacks a field of the fragment
readFragment(c, id) ==
    IF c[id] = Gone \/ \E f \in FragmentFields : ~HasField(c[id], f) THEN Gone
    ELSE [f \in FragmentFields |-> c[id][f]]

\* mutant: the catch block rethrows
getRepositoryFromCacheRethrows(c, id, outcome) ==
    IF outcome = "ok" THEN [threw |-> FALSE, value |-> readFragment(c, id)]
    ELSE [threw |-> TRUE, value |-> Gone]

\* getRepositoryFromCache: the fragment read, null when makeApolloClient or the
\* read throws
getRepositoryFromCache(c, id, outcome) ==
    IF outcome = "ok" THEN [threw |-> FALSE, value |-> readFragment(c, id)]
    ELSE [threw |-> FALSE, value |-> Gone]

CacheAfter(req) ==
    LET id == req.target.id
    IN IF req.kind = "delete" THEN updateCacheAfterDelete(cache, id)
       ELSE IF req.kind = "archive" THEN updateCacheAfterArchive(cache, id, ~req.target.isArchived)
       ELSE IF req.kind = "visibility" THEN updateCacheAfterVisibilityChange(cache, id, req.arg)
       ELSE IF req.kind = "rename" THEN updateCacheAfterRename(cache, id, req.arg)
       ELSE IF req.kind = "sync" THEN updateCacheWithRepository(cache, UpdatedRepo(req.target))
       ELSE cache        \* handleStar and handleUnstar do not touch the cache

\* ---- the in-memory lists
RemoveId(list, id) == SelectSeq(list, LAMBDA r : r.id # id)
\* the entry of the target as the handler rewrites it
PatchEntry(r, req) ==
    IF req.kind = "archive" THEN [r EXCEPT !.isArchived = ~req.target.isArchived]
    ELSE IF req.kind = "star"
         THEN [r EXCEPT !.viewerHasStarred = ~req.target.viewerHasStarred,
                        !.stargazerCount = @ + (IF req.target.viewerHasStarred THEN -1 ELSE 1)]
    ELSE IF req.kind = "rename" THEN [r EXCEPT !.name = req.arg]
    ELSE IF req.kind = "visibility"
         THEN [r EXCEPT !.visibility = req.arg, !.isPrivate = (req.arg = "PRIVATE")]
    ELSE IF req.kind = "sync" THEN UpdatedRepo(req.target)
    ELSE r

\* prev.map(r => r.id === targetId ? {...r, <patch>} : r)
PatchId(list, req) ==
    [i \in 1..Len(list) |-> IF list[i].id = req.target.id THEN PatchEntry(list[i], req) ELSE list[i]]

\* handleVisibilityChange: the captured filter no longer matches the new visibility
shouldRemove(req) ==
    \/ (req.capVisFilter = "public" /\ req.arg # "PUBLIC")
    \/ (req.capVisFilter = "private" /\ req.arg # "PRIVATE" /\ req.arg # "INTERNAL")

\* what setItems and setSearchItems are given by the handler of req
ListAfter(list, req) ==
    IF req.kind = "delete" \/ (req.kind = "visibility" /\ shouldRemove(req))
    THEN RemoveId(list, req.target.id)
    ELSE PatchId(list, req)

\* items and searchItems both get the update; starredItems is changed by
\* handleUnstar alone
ItemsAfter(req) ==
    IF req.kind = "unstar" THEN [items EXCEPT !["starred"] = RemoveId(@, req.target.id)]
    ELSE [items EXCEPT !["owned"] = ListAfter(@, req), !["search"] = ListAfter(@, req)]

Decrement(c) == Max(0, c - 1)

TotalsAfter(req) ==
    IF req.kind = "delete" \/ (req.kind = "visibility" /\ shouldRemove(req))
    THEN [totalCount EXCEPT !["owned"] = Decrement(@),
                            !["search"] = IF req.capSearchActive THEN Decrement(@) ELSE @]
    ELSE IF req.kind = "unstar" THEN [totalCount EXCEPT !["starred"] = Decrement(@)]
    ELSE totalCount

\* "Keep cursor in range" / "Adjust cursor if needed"
CursorAfter(req) ==
    IF req.kind \in {"delete", "unstar"} \/ (req.kind = "visibility" /\ shouldRemove(req))
    THEN Max(0, Min(cursor, req.capLen - 2))
    ELSE cursor

\* the remote mutation is confirmed: the code after the await runs
MutationSucceeds ==
    \E j \in 1..Len(pendingMut) :
        LET req == pendingMut[j]
        IN /\ remote' = RemoteAfter(req)
           /\ cache' = CacheAfter(req)
           /\ items' = ItemsAfter(req)
           /\ totalCount' = TotalsAfter(req)
           /\ cursor' = ClampCursor(CursorAfter(req), items', starsMode, filter)
           /\ modal' = IF modal # None /\ modal.kind = req.kind THEN None ELSE modal
           /\ busy' = IF req.kind \in FlaggedKinds THEN [busy EXCEPT ![req.kind] = FALSE] ELSE busy
           /\ pendingMut' = Without(pendingMut, j)
           /\ ev' = [Ev("mutOk") EXCEPT !.id = req.target.id, !.op = req.kind]
           /\ UNCHANGED <<endCursor, hasNextPage, flags, error, starsMode, filter,
                          visibilityFilter, sortDir, searchTimer, mounted,
                          inflight, fetchedAt, now, used, vlVars, keyVars, hookVars, metaReadable>>

\* mutant: the cache and the lists are patched although the request failed
MutationCatchPatchesAnyway(req) ==
    /\ cache' = CacheAfter(req)
    /\ items' = ItemsAfter(req)
    /\ totalCount' = TotalsAfter(req)
    /\ UNCHANGED <<cursor, remote>>

\* the catch blocks of the handlers: the awaited call threw, so nothing after it ran
MutationCatch(req) == UNCHANGED <<cache, items, totalCount, cursor, remote>>

\* the remote mutation fails: the catch block only touches the modal's flag and error
MutationFails ==
    \E j \in 1..Len(pendingMut) :
        LET req == pendingMut[j]
        IN /\ MutationCatch(req)
           /\ busy' = IF req.kind \in FlaggedKinds THEN [busy EXCEPT ![req.kind] = FALSE] ELSE busy
           /\ pendingMut' = Without(pendingMut, j)
           /\ ev' = [Ev("mutFail") EXCEPT !.id = req.target.id, !.op = req.kind]
           /\ UNCHANGED <<endCursor, hasNextPage, flags, error,
                          starsMode, filter, visibilityFilter, sortDir, searchTimer, modal,
                          mounted, inflight, fetchedAt, now, used, vlVars, keyVars, hookVars, metaReadable>>

\* ------------------------------------------------------------------ Spec
\* the component before its first effect: useState initial values; the Apollo cache
\* and the freshness store are read from disk, empty or left by an earlier session
InitMainWith(c, stamps) ==
    /\ items = [s \in Sources |-> <<>>]
    /\ endCursor = [s \in Sources |-> Null]
    /\ hasNextPage = [s \in Sources |-> FALSE]
    /\ totalCount = [s \in Sources |-> 0]
    /\ flags = [loading |-> TRUE, sortingLoading |-> FALSE, refreshing |-> FALSE,
                loadingMore |-> FALSE, searchLoading |-> FALSE, starredLoading |-> FALSE]
    /\ error = None
    /\ cursor = 0
    /\ starsMode = FALSE
    /\ filter = <<>>
    /\ visibilityFilter = "all"
    /\ sortDir = "desc"
    /\ searchTimer = None
    /\ modal = None
    /\ busy = [k \in MutKinds |-> FALSE]
    /\ mounted = FALSE
    /\ inflight = <<>>
    /\ pendingMut = <<>>
    /\ remote = [i \in Ids |-> RemoteInit(i)]
    /\ cache = c
    /\ fetchedAt = stamps
    /\ now = 0
    /\ ev = EvBase
    /\ used = [fetches |-> 0, mutations |-> 0, ticks |-> 0, keys |-> 0]

\* the persisted cache and freshness store are restored, or there are none
InitMain(persisted) ==
    InitMainWith([i \in Ids |-> IF persisted THEN RemoteInit(i) ELSE Gone],
                 [k \in Keys |-> IF persisted /\ k.kind = "repos" THEN 0 ELSE NoStamp])

\* the hook is not rendered
VLQuiet ==
    /\ vlCount = 0 /\ vlCursor = 0 /\ vlContainerHeight = 1 /\ vlItemHeight = 1
    /\ vlOverscan = 2 /\ lastCursorRef = 0
    /\ lastWindowRef = [start |-> 0, end |-> 0]
    /\ vlWindow = [start |-> 0, end |-> 0]
    /\ vlReused = FALSE
    /\ windowedRL = [start |-> 0, end |-> 0]

\* no query has been changed
KeysQuiet == query = DefaultQuery /\ prevQuery = DefaultQuery

PfOf(cur, n, hasNext, isLoading, ran, decision) ==
    [cursor |-> cur, loadedCount |-> n, hasNextPage |-> hasNext, loading |-> isLoading,
     ran |-> ran, fetch |-> decision]

NoRead == [id |-> 0, outcome |-> "none", threw |-> FALSE, value |-> Gone]

\* useState(false), useState(null), useState(false), useState(null)
ModalInit == [isOpen |-> FALSE, target |-> Null, loading |-> FALSE, error |-> "null",
              last |-> "init"]

\* ---- App: the AppState union and its transitionTo helpers
\* a token is named after the place it came from
SessionTokenOrigins == {"cli", "env", "stored", "oauth", "prompt"}
NoToken == "none"

AppBase == [mode |-> "checking", token |-> NoToken, origin |-> "none",
            wasRateLimited |-> FALSE, reset |-> FALSE, status |-> "none"]

toAuthMethodSelection == [AppBase EXCEPT !.mode = "auth_method_selection"]
toPrompt == [AppBase EXCEPT !.mode = "prompt"]
toValidating(token, sessionTokenOrigin, wasRateLimited, rateLimitReset) ==
    [AppBase EXCEPT !.mode = "validating", !.token = token, !.origin = sessionTokenOrigin,
                    !.wasRateLimited = wasRateLimited, !.reset = rateLimitReset]
toOauthFlow(status) == [AppBase EXCEPT !.mode = "oauth_flow", !.status = status]
toReady(token, sessionTokenOrigin) ==
    [AppBase EXCEPT !.mode = "ready", !.token = token, !.origin = sessionTokenOrigin]
toRateLimited(resetAt, token, wasRateLimited) ==
    [AppBase EXCEPT !.mode = "rate_limited", !.token = token,
                    !.wasRateLimited = wasRateLimited, !.reset = resetAt]

AppEvBase == [kind |-> "init", token |-> NoToken, cancelled |-> FALSE]

\* the App is not rendered
AppQuiet ==
    /\ appState = AppBase
    /\ storedToken = NoToken
    /\ launch = [inlineToken |-> NoToken, inlineTokenEphemeral |-> FALSE, env |-> NoToken]
    /\ validations = <<>>
    /\ oauthRuns = <<>>
    /\ authUsed = [validations |-> 0, oauthRuns |-> 0]
    /\ appEv = AppEvBase

HooksQuiet ==
    pf = PfOf(0, 0, FALSE, FALSE, FALSE, FALSE) /\ rr = NoRead /\ ms = ModalInit /\ AppQuiet

Init == (\E persisted \in BOOLEAN : InitMain(persisted)) /\ metaReadable = TRUE /\ VLQuiet /\ KeysQuiet /\ HooksQuiet

Next ==
    \/ Mount
    \/ ChangeSortDir
    \/ ChangeVisibilityFilter
    \/ Refresh
    \/ TypeFilter
    \/ SearchTimerFires
    \/ EscapeInFilterMode
    \/ EscapeFilter
    \/ ToggleStarsMode
    \/ Prefetch
    \/ MoveCursor
    \/ Tick
    \/ FetchSucceeds
    \/ FetchFails
    \/ OpenModal
    \/ CancelModal
    \/ ConfirmMutation
    \/ MutationSucceeds
    \/ MutationFails

Spec == Init /\ [][Next]_vars

\* ------------------------------------------------------------------ SpecStoreFail
\* the same component started over a freshness store whose file holds the records
\* of an earlier session and cannot be read or written
InitStoreFail == InitMain(TRUE) /\ metaReadable = FALSE /\ VLQuiet /\ KeysQuiet /\ HooksQuiet

SpecStoreFail == InitStoreFail /\ [][Next]_vars

\* ------------------------------------------------------------------ SpecVL
\* A render of the hook with the given inputs (the memo's dependencies changed).
VLRender(count, cur, height, itemHeight) ==
    LET vc == VisibleCount(height, itemHeight)
        r == ComputeWindow(cur, count, vc, vlOverscan, lastCursorRef, lastWindowRef)
    IN /\ vlCount' = count
       /\ vlCursor' = cur
       /\ vlContainerHeight' = height
       /\ vlItemHeight' = itemHeight
       /\ vlWindow' = r.win
       /\ lastCursorRef' = r.lastCursor
       /\ lastWindowRef' = r.lastWindow
       /\ vlReused' = r.reused
       /\ windowedRL' = Windowed(count, cur, vc)
       /\ UNCHANGED <<vlOverscan, mainVars, keyVars, hookVars>>

\* first render: refs start at useRef(cursor) and useRef({start: 0, end: 0})
InitVL ==
    /\ vlCount \in 0..MaxCount
    /\ vlCursor \in 0..Max(0, vlCount - 1)
    /\ vlContainerHeight \in 1..MaxHeight
    /\ vlItemHeight \in 1..MaxItemHeight
    /\ vlOverscan \in 0..MaxOverscan
    /\ LET r == ComputeWindow(vlCursor, vlCount, VisibleCount(vlContainerHeight, vlItemHeight),
                              vlOverscan, vlCursor, [start |-> 0, end |-> 0])
       IN /\ vlWindow = r.win
          /\ lastCursorRef = r.lastCursor
          /\ lastWindowRef = r.lastWindow
          /\ vlReused = r.reused
    /\ windowedRL = Windowed(vlCount, vlCursor, VisibleCount(vlContainerHeight, vlItemHeight))
    /\ InitMain(FALSE)
    /\ metaReadable = TRUE
    /\ KeysQuiet
    /\ HooksQuiet

\* the caller moves the cursor inside the list
VLMoveCursor ==
    \E c \in 0..Max(0, vlCount - 1) :
        /\ c # vlCursor
        /\ VLRender(vlCount, c, vlContainerHeight, vlItemHeight)

\* items appended between calls
VLAppend ==
    \E k \in 1..MaxCount :
        /\ vlCount + k <= MaxCount
        /\ VLRender(vlCount + k, vlCursor, vlContainerHeight, vlItemHeight)

\* items removed between calls; the caller keeps the cursor in range
VLRemove ==
    \E k \in 1..MaxCount :
        /\ k <= vlCount
        /\ VLRender(vlCount - k, Min(vlCursor, Max(0, vlCount - k - 1)), vlContainerHeight, vlItemHeight)

\* the terminal is resized
VLResize ==
    \E h \in 1..MaxHeight :
        /\ h # vlContainerHeight
        /\ VLRender(vlCount, vlCursor, h, vlItemHeight)

NextVL == VLMoveCursor \/ VLAppend \/ VLRemove \/ VLResize

SpecVL == InitVL /\ [][NextVL]_vars

\* ------------------------------------------------------------------ SpecVLLarge
\* the "large datasets" case of the hook's test: 10,000 items, itemHeight 3,
\* containerHeight 30, overscan 2
LargeCount == 10000
LargeItemHeight == 3
LargeContainerHeight == 30

\* the cursors the caller jumps between: the top, the middle and the bottom
JumpCursors ==
    (0..7) \cup ((LargeCount \div 2 - 4)..(LargeCount \div 2 + 3)) \cup ((LargeCount - 8)..(LargeCount - 1))

InitVLLarge ==
    /\ vlCount = LargeCount
    /\ vlCursor = 0
    /\ vlContainerHeight = LargeContainerHeight
    /\ vlItemHeight = LargeItemHeight
    /\ vlOverscan = 2
    /\ LET r == ComputeWindow(vlCursor, vlCount, VisibleCount(vlContainerHeight, vlItemHeight),
                              vlOverscan, vlCursor, [start |-> 0, end |-> 0])
       IN /\ vlWindow = r.win
          /\ lastCursorRef = r.lastCursor
          /\ lastWindowRef = r.lastWindow
          /\ vlReused = r.reused
    /\ windowedRL = Windowed(vlCount, vlCursor, VisibleCount(vlContainerHeight, vlItemHeight))
    /\ InitMain(FALSE)
    /\ metaReadable = TRUE
    /\ KeysQuiet
    /\ HooksQuiet

\* the cursor jumps (G, Ctrl+G, page keys) or steps
VLJump ==
    \E c \in JumpCursors :
        /\ c # vlCursor
        /\ VLRender(vlCount, c, vlContainerHeight, vlItemHeight)

SpecVLLarge == InitVLLarge /\ [][VLJump]_vars

\* ------------------------------------------------------------------ SpecKeys
\* the fields in which two queries differ
DifferingFields(a, b) == {f \in DOMAIN a : a[f] # b[f]}

InitKeys ==
    /\ query \in QuerySpecs
    /\ prevQuery = query
    /\ InitMain(FALSE)
    /\ metaReadable = TRUE
    /\ VLQuiet
    /\ HooksQuiet

\* one setter runs: the workspace switcher, the filter input, the sort modals,
\* the page size of the process, the fork-tracking toggle, the affiliation
\* picker or the visibility modal changes one field of the query
ChangeQuery ==
    /\ \E q2 \in QuerySpecs :
          /\ Cardinality(DifferingFields(query, q2)) = 1
          /\ query' = q2
    /\ prevQuery' = query
    /\ UNCHANGED <<mainVars, vlVars, hookVars>>

NextKeys == ChangeQuery

SpecKeys == InitKeys /\ [][NextKeys]_vars

\* ------------------------------------------------------------------ claims
\* the four fields of one source's accumulated state are the same before and after a step
SourceStateUnchanged(s) ==
    /\ items'[s] = items[s]
    /\ endCursor'[s] = endCursor[s]
    /\ hasNextPage'[s] = hasNextPage[s]
    /\ totalCount'[s] = totalCount[s]

\* the step is the completion of a page fetch
StepFetchOk == ev'.kind = "fetchOk"
StepFetchFail == ev'.kind = "fetchFail"

\* C1: every window returned by the Virtual Window Calculator over a non-empty
\* list, with the cursor in [0, length), satisfies
\* 0 <= startIndex <= cursor < endIndex <= length, whatever cursor moves and
\* length changes came before.
C1_WindowInvariant ==
    (vlCount > 0 /\ vlCursor \in 0..(vlCount - 1)) =>
        /\ 0 <= vlWindow.start /\ vlWindow.start <= vlCursor
        /\ vlCursor < vlWindow.end /\ vlWindow.end <= vlCount

\* C2: the result of a fetch that was superseded by a newer first-page fetch for
\* the same source is discarded when it arrives: the step that delivers it leaves
\* that source's items, endCursor, hasNextPage and totalCount as they were.
C2_SupersededResultDiscarded ==
    [][(StepFetchOk /\ ev'.superseded) => SourceStateUnchanged(ev'.src)]_vars

\* C3: at any time at most one fetch per source is in flight.
C3_OneFetchPerSource ==
    \A s \in Sources : Cardinality({i \in 1..Len(inflight) : inflight[i].src = s}) <= 1

\* C4: right after a confirmed delete of repository id has been reconciled, the
\* cache holds no record for id and none of the three lists contains id.
C4_DeleteRemovesEverywhere ==
    (ev.kind = "mutOk" /\ ev.op = "delete") =>
        /\ cache[ev.id] = Gone
        /\ \A s \in Sources : ev.id \notin IdsOf(items[s])

\* the fields an operation patches
PatchedFieldsAgree(op, a, b) ==
    IF op = "archive" THEN a.isArchived = b.isArchived
    ELSE IF op = "visibility" THEN a.visibility = b.visibility
    ELSE IF op = "rename" THEN a.name = b.name
    ELSE IF op \in {"star", "unstar"}
         THEN a.viewerHasStarred = b.viewerHasStarred /\ a.stargazerCount = b.stargazerCount
    ELSE TRUE

\* C5: right after a confirmed mutation of repository id has been reconciled, the
\* cached record of id and every list entry of id agree on the fields the
\* operation patches.
C5_CacheAndListsAgree ==
    ev.kind = "mutOk" =>
        \A s \in Sources : \A i \in 1..Len(items[s]) :
            (items[s][i].id = ev.id /\ cache[ev.id] # Gone)
                => PatchedFieldsAgree(ev.op, cache[ev.id], items[s][i])

C8_ResetReplacesElseAppends ==
    [][StepFetchOk =>
          LET s == ev'.src
              page == ev'.page
          IN /\ items'[s] = (IF ev'.reset THEN page.nodes ELSE items[s] \o page.nodes)
             /\ endCursor'[s] = page.endCursor
             /\ hasNextPage'[s] = page.hasNextPage
             /\ totalCount'[s] = page.totalCount]_vars

\* a second page was appended to a non-empty list
C8_Witness ==
    /\ ev.kind = "fetchOk"
    /\ ~ev.reset
    /\ ev.page.nodes # <<>>
    /\ Len(items[ev.src]) > Len(ev.page.nodes)

\* C9: a first-page fetch in flight uses cache-first only if the freshness store
\* held a fresh record for its key when it was started and its caller did not
\* force the network (so with no record it goes to the network); a refresh and a
\* visibility-filter refetch always use network-only.
C9_CacheFirstOnlyWhenFresh ==
    \A i \in 1..Len(inflight) :
        LET f == inflight[i]
        IN /\ (IsFirstPage(f) /\ f.policy = "cache-first") =>
                  (f.freshAtIssue /\ f.origin \notin {"refresh", "visibility"})
           /\ f.origin \in {"refresh", "visibility"} => f.policy = "network-only"
           /\ f.policy \in {"cache-first", "network-only"}

\* the sort effect started a first-page fetch of the owned list with cache-first
C9_Witness ==
    \E i \in 1..Len(inflight) :
        /\ IsFirstPage(inflight[i])
        /\ inflight[i].policy = "cache-first"
        /\ inflight[i].src = "owned"
        /\ inflight[i].origin = "sort"

\* the freshness store after a step: key k was stamped with the current time
StampedAlone(k) == fetchedAt' = [fetchedAt EXCEPT ![k] = now]

C11_RepeatKeepsTimestamp ==
    [][(/\ StepFetchOk /\ ev'.src = "owned" /\ ev'.after = Null
        /\ ev'.origin \in {"context", "sort"}
        /\ ev'.freshAtIssue
        /\ fetchedAt[ev'.key] # NoStamp
        /\ now - fetchedAt[ev'.key] = RepeatDelay)
          => /\ ev'.policy = "cache-first"
             /\ fetchedAt'[ev'.key] = fetchedAt[ev'.key]]_vars

\* C12: two queries that differ in exactly one field, where that field changes
\* what the transport is asked for (owner context, search text, sort field, sort
\* direction, page size, fork tracking, affiliations, visibility filter), have
\* different freshness keys.
C12_DistinctQueriesDistinctKeys ==
    (/\ Cardinality(DifferingFields(prevQuery, query)) = 1
     /\ TransportRequest(prevQuery) # TransportRequest(query))
        => FreshnessKey(prevQuery) # FreshnessKey(query)

TtlSamples == {1, SEARCH_TTL_MS, DEFAULT_APOLLO_TTL_MS}

\* C14: right after markFetched(key), isFresh(key, ttl) is true for every ttl > 0;
\* once more than ttl has passed since the last mark of the key, isFresh(key, ttl)
\* is false; and isFresh is false for a key that was never marked.
C14_FreshAfterMarkStaleAfterTtl ==
    \A ttl \in TtlSamples :
        /\ (ev.kind = "fetchOk" /\ ev.marked) => isFresh(ev.key, ttl)
        /\ \A k \in Keys :
              /\ fetchedAt[k] = now => isFresh(k, ttl)
              /\ (fetchedAt[k] # NoStamp /\ now - fetchedAt[k] > ttl) => ~isFresh(k, ttl)
              /\ fetchedAt[k] = NoStamp => ~isFresh(k, ttl)

\* a search key was marked by a fetch of this session and the clock has since
\* passed the search TTL but not the list TTL; another key was never marked
C14_Witness ==
    /\ \E k \in Keys :
          /\ k.kind = "search"
          /\ fetchedAt[k] # NoStamp
          /\ now - fetchedAt[k] > SEARCH_TTL_MS
          /\ now - fetchedAt[k] <= DEFAULT_APOLLO_TTL_MS
    /\ \E k \in Keys : fetchedAt[k] = NoStamp

\* the hysteresis test on the inputs of a render: the cursor moved fewer than 3
\* rows from the cursor of the stored window and lies inside that window
SmallMoveInsidePrevious ==
    /\ vlCursor' - lastCursorRef < 3 /\ lastCursorRef - vlCursor' < 3
    /\ lastWindowRef.start <= vlCursor' /\ vlCursor' < lastWindowRef.end

\* everything fits in the container after the render
FitsAfterRender == VisibleCount(vlContainerHeight', vlItemHeight') >= vlCount'

\* the cursor-centred window of the new inputs
CentredAfterRender ==
    LET vc == VisibleCount(vlContainerHeight', vlItemHeight')
        start == Max(0, Min(vlCursor' - (vc \div 2) - vlOverscan', vlCount' - vc))
    IN [start |-> start, end |-> Min(vlCount', start + vc + 2 * vlOverscan')]

\* C15 as amended: when the list does not fit in the container, a render whose
\* cursor moved fewer than 3 rows and lies inside the stored previous window
\* returns that window unchanged, and any other render recomputes the
\* cursor-centred window and stores it; when the list fits, the render returns
\* {0, length} whatever the previous window was.
C15_HysteresisOnlyWhenWindowed ==
    [][IF FitsAfterRender
       THEN vlWindow' = [start |-> 0, end |-> vlCount']
       ELSE IF SmallMoveInsidePrevious
       THEN vlWindow' = lastWindowRef /\ lastWindowRef' = lastWindowRef
            /\ lastCursorRef' = lastCursorRef
       ELSE vlWindow' = CentredAfterRender /\ lastWindowRef' = vlWindow'
            /\ lastCursorRef' = vlCursor']_vars

\* the cursor moved inside the stored window of a list that does not fit, and the
\* stored window was returned
C15_Witness ==
    /\ vlReused
    /\ vlCursor # lastCursorRef
    /\ vlWindow = lastWindowRef
    /\ VisibleCount(vlContainerHeight, vlItemHeight) < vlCount

\* C15 as stated: whenever the cursor moved fewer than 3 rows and lies inside the
\* previous window, the previous window is returned.
C15_SmallMoveAlwaysReuses ==
    [][SmallMoveInsidePrevious => vlWindow' = lastWindowRef]_vars

\* C16: every returned window is at most visibleCapacity + 2 * overscan rows
\* long, with the visibleCapacity of the call that returned it, also when the
\* call reuses a stored window.
C16_WindowLengthBounded ==
    vlWindow.end - vlWindow.start
        <= VisibleCount(vlContainerHeight, vlItemHeight) + 2 * vlOverscan

\* the list on display
ActiveSource == IF starsMode THEN "starred" ELSE IF SearchActive THEN "search" ELSE "owned"

\* the visibility filter hides a record of visibility v
FilterExcludes(vf, v) ==
    \/ vf = "public" /\ v # "PUBLIC"
    \/ vf = "private" /\ v \notin {"PRIVATE", "INTERNAL"}

\* list b is list a with the entry of id given the visibility v and its isPrivate
VisibilityPatchedInPlace(a, b, id, v) ==
    /\ Len(b) = Len(a)
    /\ \A i \in 1..Len(a) :
          IF a[i].id = id
          THEN b[i] = [a[i] EXCEPT !.visibility = v, !.isPrivate = (v = "PRIVATE")]
          ELSE b[i] = a[i]

\* C17: the step that reconciles a confirmed visibility change of id to
\* newVisibility, for a record the active list holds: if the active visibility
\* filter excludes newVisibility, the record leaves the active list and that
\* list's totalCount drops by exactly 1; otherwise the record stays where it is
\* with visibility and isPrivate patched.
C17_VisibilityChangeReconciled ==
    [][(ev'.kind = "mutOk" /\ ev'.op = "visibility") =>
          \A j \in 1..Len(pendingMut) :
              LET req == pendingMut[j]
                  id == req.target.id
                  s == ActiveSource
              IN (req.kind = "visibility" /\ id = ev'.id /\ id \in IdsOf(items[s])) =>
                     IF FilterExcludes(visibilityFilter, req.arg)
                     THEN /\ id \notin IdsOf(items'[s])
                          /\ totalCount'[s] = totalCount[s] - 1
                     ELSE VisibilityPatchedInPlace(items[s], items'[s], id, req.arg)]_vars

\* C18: the step that reconciles a confirmed unstar of id while the starred list
\* is on display removes id from the starred list and lowers its totalCount by
\* exactly 1, and an entry of id in the owned list stays where it is with
\* viewerHasStarred false and one star fewer.
C18_UnstarReconciled ==
    [][(ev'.kind = "mutOk" /\ ev'.op = "unstar" /\ starsMode
        /\ ev'.id \in IdsOf(items["starred"])) =>
          /\ ev'.id \notin IdsOf(items'["starred"])
          /\ totalCount'["starred"] = totalCount["starred"] - 1
          /\ Len(items'["owned"]) = Len(items["owned"])
          /\ \A i \in 1..Len(items["owned"]) :
                items'["owned"][i] =
                    IF items["owned"][i].id = ev'.id
                    THEN [items["owned"][i] EXCEPT !.viewerHasStarred = FALSE,
                                                   !.stargazerCount = @ - 1]
                    ELSE items["owned"][i]]_vars

\* C19: the step that reconciles a confirmed delete of id lowers totalCount by
\* exactly 1 for every source whose list held id and leaves the totalCount of
\* every other source as it was.
C19_DeleteDecrementsHolders ==
    [][(ev'.kind = "mutOk" /\ ev'.op = "delete") =>
          \A s \in Sources :
              totalCount'[s] = IF ev'.id \in IdsOf(items[s])
                               THEN totalCount[s] - 1 ELSE totalCount[s]]_vars

\* C20: no step before the transport's confirmation patches anything for a
\* mutation: opening the modal, sending the request and closing the modal leave
\* the cache, the lists and the totalCounts as they were, and so does the step
\* in which the remote mutation fails; the step that patches them is the one
\* in which the remote mutation has taken effect.
C20_PatchedOnlyAfterConfirmation ==
    [][/\ ev'.kind \in {"open", "confirm", "cancel", "mutFail"} =>
              (cache' = cache /\ items' = items /\ totalCount' = totalCount)
       /\ ev'.kind = "mutOk" =>
              \A j \in 1..Len(pendingMut) :
                  (pendingMut[j].target.id = ev'.id /\ pendingMut[j].kind = ev'.op)
                      => remote' = RemoteAfter(pendingMut[j])]_vars

\* a mutation of a repository that the owned list and the cache hold has failed
C20_Witness ==
    /\ ev.kind = "mutFail"
    /\ ev.id \in IdsOf(items["owned"])
    /\ cache[ev.id] # Gone
    /\ totalCount["owned"] > 0

\* ------------------------------------------------------------------ SpecPrefetch
\* the infinite-scroll effect of one list, run on the values of one render
InitPrefetch ==
    /\ \E n \in 0..MaxLoaded, hasNext \in BOOLEAN, isLoading \in BOOLEAN :
          \E cur \in 0..Max(0, n - 1) : pf = PfOf(cur, n, hasNext, isLoading, FALSE, FALSE)
    /\ rr = NoRead /\ ms = ModalInit /\ AppQuiet
    /\ InitMain(FALSE)
    /\ metaReadable = TRUE
    /\ VLQuiet
    /\ KeysQuiet

\* the effect runs and decides whether to call the next-page fetch
PrefetchEffect ==
    /\ ~pf.ran
    /\ pf' = [pf EXCEPT !.ran = TRUE,
                        !.fetch = shouldPrefetch(pf.cursor, pf.loadedCount,
                                                 pf.hasNextPage, pf.loading)]
    /\ UNCHANGED <<mainVars, vlVars, keyVars, rr, ms, appVars>>

\* a dependency of the effect changes: the cursor, the length, hasNextPage or
\* the loading flag
PrefetchDepsChange ==
    /\ pf.ran
    /\ \E n \in 0..MaxLoaded, hasNext \in BOOLEAN, isLoading \in BOOLEAN :
          \E cur \in 0..Max(0, n - 1) :
            /\ Cardinality({f \in {"cursor", "loadedCount", "hasNextPage", "loading"} :
                    PfOf(cur, n, hasNext, isLoading, FALSE, FALSE)[f] # pf[f]}) = 1
            /\ pf' = PfOf(cur, n, hasNext, isLoading, FALSE, FALSE)
    /\ UNCHANGED <<mainVars, vlVars, keyVars, rr, ms, appVars>>

NextPrefetch == PrefetchEffect \/ PrefetchDepsChange

SpecPrefetch == InitPrefetch /\ [][NextPrefetch]_vars

\* C22: the effect calls the next-page fetch exactly when the source has a next
\* page, is not loading, holds at least one item and the cursor is at or past
\* floor(loadedCount * 0.8), that is 10 * (cursor + 1) > 8 * loadedCount.
C22_PrefetchDecision ==
    pf.ran => (pf.fetch <=> (/\ pf.hasNextPage
                             /\ ~pf.loading
                             /\ pf.loadedCount > 0
                             /\ 10 * (pf.cursor + 1) > 8 * pf.loadedCount))

\* 15 items, cursor 12: the fetch is called when not loading
C22_Witness == pf = PfOf(12, 15, TRUE, FALSE, TRUE, TRUE)

\* the same inputs while loading: no call
C22_WitnessLoading == pf = PfOf(12, 15, TRUE, TRUE, TRUE, FALSE)

\* ------------------------------------------------------------------ SpecScroll
\* the view once the first page of the owned list has arrived: the state after
\* Mount and FetchSucceeds, with the bookkeeping started afresh
InitScrollWith(page) ==
       /\ items = [s \in Sources |-> IF s = "owned" THEN page.nodes ELSE <<>>]
       /\ endCursor = [s \in Sources |-> IF s = "owned" THEN page.endCursor ELSE Null]
       /\ hasNextPage = [s \in Sources |-> s = "owned" /\ page.hasNextPage]
       /\ totalCount = [s \in Sources |-> IF s = "owned" THEN page.totalCount ELSE 0]
       /\ flags = [loading |-> FALSE, sortingLoading |-> FALSE, refreshing |-> FALSE,
                   loadingMore |-> FALSE, searchLoading |-> FALSE, starredLoading |-> FALSE]
       /\ error = None
       /\ cursor = 0
       /\ starsMode = FALSE
       /\ filter = <<>>
       /\ visibilityFilter = "all"
       /\ sortDir = "desc"
       /\ searchTimer = None
       /\ modal = None
       /\ busy = [k \in MutKinds |-> FALSE]
       /\ mounted = TRUE
       /\ inflight = <<>>
       /\ pendingMut = <<>>
       /\ cache = CacheWrite([i \in Ids |-> Gone], page.nodes)
       /\ fetchedAt = [k \in Keys |-> IF k = makeApolloKey("desc") THEN 0 ELSE NoStamp]
       /\ now = 0
       /\ ev = EvBase
       /\ used = [fetches |-> 0, mutations |-> 0, ticks |-> 0, keys |-> 0]
       /\ metaReadable = TRUE
       /\ VLQuiet /\ KeysQuiet /\ HooksQuiet

InitScroll ==
    /\ remote = [i \in Ids |-> RemoteInit(i)]
    /\ LET page == PageOf(ServerOwned("desc", "none"), Null, PageSize)
       IN InitScrollWith(page)

NextScroll == MoveCursor \/ Prefetch \/ FetchSucceeds \/ FetchFails \/ Refresh \/ ToggleStarsMode

SpecScroll == InitScroll /\ [][NextScroll]_vars

\* C23: one crossing of the prefetch threshold invokes the next-page fetch of
\* the source once: the effect starts no fetch for a page cursor while a fetch
\* for that cursor is under way, and none right after its fetch for that cursor
\* has ended, the cursor not having moved in between.
C23_PrefetchOncePerCrossing ==
    [][ev'.kind = "prefetch"
        => /\ \A i \in 1..Len(inflight) :
                ~(inflight[i].src = ev'.src /\ inflight[i].after = ev'.after)
           /\ ~(/\ ev.kind \in {"fetchOk", "fetchFail"}
                /\ ev.origin = "prefetch"
                /\ ev.src = ev'.src /\ ev.after = ev'.after)]_vars

SourceOf(sm, f) == IF sm THEN "starred" ELSE IF SearchActiveOf(sm, f) THEN "search" ELSE "owned"

\* the data of the list displayed after the step is fresh in the store
\* (no key is kept for the starred list)
DestinationFresh ==
    LET dest == SourceOf(starsMode', filter')
    IN IF dest = "owned" THEN isFresh(makeApolloKey(sortDir'), DEFAULT_APOLLO_TTL_MS)
       ELSE IF dest = "search" THEN isFresh(makeSearchKey(Trim(filter'), sortDir'), SEARCH_TTL_MS)
       ELSE FALSE

\* C25: a key press that switches the list on display (Shift+S, typing in or
\* clearing the filter) leaves items, endCursor, hasNextPage and totalCount of
\* every source other than the one switched to as they were, and starts no
\* fetch when the data of the source switched to is fresh.
C25_SwitchKeepsOtherSources ==
    [][(ev'.kind \in {"stars", "escape", "type"} /\ SourceOf(starsMode', filter') # ActiveSource)
        => (/\ \A s \in Sources \ {SourceOf(starsMode', filter')} :
                  /\ items'[s] = items[s]
                  /\ endCursor'[s] = endCursor[s]
                  /\ hasNextPage'[s] = hasNextPage[s]
                  /\ totalCount'[s] = totalCount[s]
            /\ DestinationFresh => inflight' = inflight)]_vars

\* the entry shows the time of the sync and, where it holds both commit counts,
\* zero commits behind
SyncPatched(r) ==
    /\ r.updatedAt = SyncedAt
    /\ (HasField(r, "commits") /\ HasField(r, "parentCommits") /\ r.parentCommits # Null)
         => r.commits = r.parentCommits

\* C27: after a confirmed fork sync of id, the cached record of id and every
\* list entry of id carry the patched updatedAt and, where the commit counts of
\* fork and parent were known, the parent's count as their own (zero commits
\* behind); no fetch is started.
C27_SyncPatchedEverywhere ==
    [][(ev'.kind = "mutOk" /\ ev'.op = "sync")
        => (/\ SyncPatched(cache'[ev'.id])
            /\ \A s \in Sources : \A i \in 1..Len(items'[s]) :
                  items'[s][i].id = ev'.id => SyncPatched(items'[s][i])
            /\ inflight' = inflight)]_vars

\* records a and b differ in the name at most (nameWithOwner follows the name)
SameButName(a, b) == [a EXCEPT !.name = b.name] = b

\* C28: a confirmed rename of id changes nothing but the name (and with it the
\* qualified name) of the record of id: every other field of the cached record
\* and of its list entries, every other record, the order and length of every
\* list, and every totalCount stay as they were.
C28_RenameChangesNameOnly ==
    [][(ev'.kind = "mutOk" /\ ev'.op = "rename")
        => (/\ \A i \in Ids :
                  IF i = ev'.id /\ cache[i] # Gone
                  THEN cache'[i] # Gone /\ SameButName(cache'[i], cache[i])
                  ELSE cache'[i] = cache[i]
            /\ \A s \in Sources :
                  /\ Len(items'[s]) = Len(items[s])
                  /\ \A i \in 1..Len(items[s]) :
                        IF items[s][i].id = ev'.id
                        THEN SameButName(items'[s][i], items[s][i])
                        ELSE items'[s][i] = items[s][i]
            /\ totalCount' = totalCount)]_vars

\* a rename was confirmed and the cache and a list show the new name
C28_Witness ==
    /\ ev.kind = "mutOk" /\ ev.op = "rename"
    /\ cache[ev.id] # Gone /\ cache[ev.id].name \in NewNames
    /\ \E s \in Sources : \E i \in 1..Len(items[s]) :
          items[s][i].id = ev.id /\ items[s][i].name \in NewNames

\* ------------------------------------------------------------------ SpecRead
\* a record as a query without commit history leaves it in the cache
WithoutHistory(r) ==
    updateCacheWithRepository([i \in Ids |-> Gone],
                              [r EXCEPT !.commits = Null, !.parentCommits = Null])[r.id]

\* the caches a read can meet: each record absent, complete, or without the
\* commit histories
CacheStates ==
    {c \in [Ids -> {Gone} \cup {RemoteInit(i) : i \in Ids}
                          \cup {WithoutHistory(RemoteInit(i)) : i \in Ids}] :
        \A i \in Ids : c[i] = Gone \/ c[i].id = i}

InitRead ==
    /\ \E c \in CacheStates : InitMainWith(c, [k \in Keys |-> NoStamp])
    /\ metaReadable = TRUE
    /\ VLQuiet /\ KeysQuiet /\ HooksQuiet

\* one call of getRepositoryFromCache(token, id); makeApolloClient or the read
\* may throw
ReadRecord ==
    /\ \E id \in Ids, outcome \in {"ok", "throws"} :
          LET r == getRepositoryFromCache(cache, id, outcome)
          IN rr' = [id |-> id, outcome |-> outcome, threw |-> r.threw, value |-> r.value]
    /\ UNCHANGED <<mainVars, vlVars, keyVars, pf, ms, appVars>>

SpecRead == InitRead /\ [][ReadRecord]_vars

\* C29: getRepositoryFromCache starts no request and raises nothing; it returns
\* null when the cache holds no record of the id, when the record lacks a field
\* of the fragment, and when the read fails; otherwise it returns the record.
C29_ReadRecordNullCases ==
    rr.outcome # "none"
        => (/\ ~rr.threw
            /\ inflight = <<>> /\ pendingMut = <<>> /\ used.fetches = 0
            /\ (cache[rr.id] = Gone => rr.value = Gone)
            /\ (cache[rr.id] # Gone /\ "commits" \notin DOMAIN cache[rr.id] => rr.value = Gone)
            /\ (rr.outcome = "throws" => rr.value = Gone)
            /\ (rr.outcome = "ok" /\ cache[rr.id] # Gone /\ FragmentFields \subseteq DOMAIN cache[rr.id])
                    => (rr.value # Gone /\ rr.value.id = rr.id))

\* a record without commit history was read: null
C29_Witness ==
    /\ rr.outcome = "ok" /\ cache[rr.id] # Gone /\ "commits" \notin DOMAIN cache[rr.id]
    /\ rr.value = Gone

\* the read failed: null, nothing thrown
C29_WitnessReadFails == rr.outcome = "throws" /\ cache[rr.id] # Gone /\ rr.value = Gone /\ ~rr.threw

\* ------------------------------------------------------------------ SpecModal
\* the error texts a caller sets
ModalErrors == {"null", "Failed to delete repository", "Some error", "Test error",
                "Failed to sync fork. Check permissions and network.",
                "Failed to change visibility", "Network error"}

\* open(targetData?): undefined (given = FALSE) leaves the target as it is
open(m, given, targetData) ==
    [m EXCEPT !.isOpen = TRUE,
              !.target = IF given THEN targetData ELSE @,
              !.error = "null", !.last = "open"]

\* mutant: close() keeps the target
closeKeepsTarget(m) ==
    [m EXCEPT !.isOpen = FALSE, !.loading = FALSE, !.error = "null", !.last = "close"]

close(m) ==
    [m EXCEPT !.isOpen = FALSE, !.target = Null, !.loading = FALSE, !.error = "null",
              !.last = "close"]

setLoadingState(m, loadingState) == [m EXCEPT !.loading = loadingState, !.last = "setLoading"]

setErrorState(m, errorMessage) ==
    [m EXCEPT !.error = errorMessage, !.loading = FALSE, !.last = "setError"]

ModalFrame == UNCHANGED <<mainVars, vlVars, keyVars, pf, rr, appVars>>

ModalOpen ==
    /\ \E given \in BOOLEAN, t \in Ids \cup {Null} : ms' = open(ms, given, t)
    /\ ModalFrame
ModalClose == ms' = close(ms) /\ ModalFrame
ModalSetLoading == (\E b \in BOOLEAN : ms' = setLoadingState(ms, b)) /\ ModalFrame
ModalSetError == (\E e \in ModalErrors : ms' = setErrorState(ms, e)) /\ ModalFrame

InitModal ==
    /\ pf = PfOf(0, 0, FALSE, FALSE, FALSE, FALSE) /\ rr = NoRead /\ AppQuiet
    /\ ms = ModalInit
    /\ InitMain(FALSE)
    /\ metaReadable = TRUE
    /\ VLQuiet /\ KeysQuiet

NextModal == ModalOpen \/ ModalClose \/ ModalSetLoading \/ ModalSetError

SpecModal == InitModal /\ [][NextModal]_vars

\* C30: whatever open, setLoading and setError calls came before, close() leaves
\* isOpen = false, target = null, loading = false and error = null, and a
\* close() that follows a close() changes nothing.
C30_CloseResetsAll ==
    [][ms'.last = "close"
        => (/\ ~ms'.isOpen /\ ms'.target = Null /\ ~ms'.loading /\ ms'.error = "null"
            /\ ms.last = "close" => ms' = ms)]_vars

\* a modal has been closed
C30_Witness == ms = [ModalInit EXCEPT !.last = "close"]

\* a modal is open on a target with an error set: the state of the hook's test
\* before close()
C30_WitnessOpenWithError ==
    ms.isOpen /\ ms.target \in Ids /\ ms.error = "Some error" /\ ms.last = "setError"

\* C21: patching a repository the cache does not hold is a silent no-op: the
\* confirmed patch of an archive, visibility change, rename, star or fork sync
\* creates no cache record for the id, adds the id to no list and raises no
\* error.
C21_AbsentIdPatchIsNoOp ==
    [][(ev'.kind = "mutOk" /\ ev'.op \in MutKinds \ {"delete", "unstar"}
            /\ cache[ev'.id] = Gone)
        => (/\ cache'[ev'.id] = Gone
            /\ \A s \in Sources : IdsOf(items'[s]) \subseteq IdsOf(items[s])
            /\ error' = error)]_vars

\* C31: whenever the displayed list is not empty, the cursor is the index of one
\* of its rows: 0 <= cursor < number of displayed items.
C31_CursorInsideDisplayedList ==
    Len(VisibleItems) > 0 => (0 <= cursor /\ cursor < Len(VisibleItems))

\* the window of the contract: everything when the list fits, else the
\* cursor-centred window with `overscan` rows before and 2*overscan after
ContractWindow(cur, itemCount, visibleCapacity, overscan) ==
    IF visibleCapacity >= itemCount THEN [start |-> 0, end |-> itemCount]
    ELSE LET wanted == cur - (visibleCapacity \div 2) - overscan
             start == IF wanted < 0 THEN 0
                      ELSE IF wanted > itemCount - visibleCapacity
                             THEN itemCount - visibleCapacity
                      ELSE wanted
         IN [start |-> start,
             end |-> Min(itemCount, start + visibleCapacity + 2 * overscan)]

\* the part of C32 about useVirtualList: a render that does not reuse the stored
\* window returns the window of the contract
C32_HookRecomputesContractWindow ==
    [][~vlReused' =>
         vlWindow' = ContractWindow(vlCursor', vlCount',
                        VisibleCount(vlContainerHeight', vlItemHeight'), vlOverscan')]_vars

\* C32: every recomputed window is the window of the contract, in useVirtualList
\* and in RepoList's `windowed` memo (which recomputes on every render, with
\* its buffer of 2 as the overscan).
C32_RecomputedWindowIsContractWindow ==
    [][/\ ~vlReused' =>
            vlWindow' = ContractWindow(vlCursor', vlCount',
                           VisibleCount(vlContainerHeight', vlItemHeight'), vlOverscan')
       /\ windowedRL' = ContractWindow(vlCursor', vlCount',
                           VisibleCount(vlContainerHeight', vlItemHeight'), WindowedBuffer)]_vars

\* the position of the first element of s with the given id (0 when absent)
PositionOf(s, id) ==
    IF id \in IdsOf(s) THEN CHOOSE k \in 1..Len(s) :
                                /\ s[k].id = id
                                /\ \A m \in 1..(k - 1) : s[m].id # id
    ELSE 0

\* C33: the displayed rows appear in the order of the active source's
\* accumulated list: each displayed row is an element of that list, and rows
\* displayed one after the other keep their relative order in it.
C33_DisplayedInListOrder ==
    LET acc == items[ActiveSource]
    IN \A i, j \in 1..Len(VisibleItems) :
          i < j => /\ PositionOf(acc, VisibleItems[i].id) > 0
                   /\ PositionOf(acc, VisibleItems[i].id) < PositionOf(acc, VisibleItems[j].id)

\* C34 as amended: a render that reuses the stored window, or that returns
\* {0, length} because the list fits, leaves lastCursor and lastWindow as they
\* were; a render that computes the cursor-centred window sets lastCursor to
\* the current cursor and lastWindow to the window it returns.
C34_RefsChangeOnlyOnCentredRecompute ==
    [][IF vlReused' \/ FitsAfterRender
       THEN lastCursorRef' = lastCursorRef /\ lastWindowRef' = lastWindowRef
       ELSE lastCursorRef' = vlCursor' /\ lastWindowRef' = vlWindow']_vars

\* a window stored by an earlier recomputation was reused at another cursor and
\* the stored cursor is still the one of that recomputation
C34_Witness ==
    /\ vlReused
    /\ lastCursorRef # vlCursor
    /\ lastWindowRef = vlWindow
    /\ lastWindowRef.start > 0

\* C34 as stated: a render that reuses leaves lastCursor and lastWindow
\* unchanged, and every other render sets lastCursor to the current cursor and
\* lastWindow to the window it returns.
C34_EveryRecomputeStores ==
    [][IF vlReused'
       THEN lastCursorRef' = lastCursorRef /\ lastWindowRef' = lastWindowRef
       ELSE lastCursorRef' = vlCursor' /\ lastWindowRef' = vlWindow']_vars

\* one of the loading indicators of the source is shown
LoadingShown(src) ==
    IF src = "search" THEN flags.searchLoading
    ELSE IF src = "starred" THEN flags.starredLoading
    ELSE flags.loading \/ flags.loadingMore \/ flags.sortingLoading \/ flags.refreshing

\* C36: while a fetch for a source is in flight, a loading indicator of that
\* source is true.
C36_LoadingWhileInFlight ==
    \A i \in 1..Len(inflight) : LoadingShown(inflight[i].src)

\* the call sites that choose the policy with isFresh(key): the context effect,
\* the sort effect and the debounce timer
DecidingOrigins == {"context", "sort", "typing"}

\* the key a deciding call site builds for the query of call f
DecisionKey(f) ==
    IF f.src = "search" THEN [kind |-> "search", q |-> f.q, sortDir |-> f.sortDir]
    ELSE [kind |-> "repos", q |-> <<>>, sortDir |-> f.sortDir]

MaxPendingDeletes == 2

\* Y or Enter in the final stage of the delete modal: confirmDeleteNow up to its
\* await (the handler tests deleteTarget only, not `deleting`)
ConfirmDeleteNow ==
    /\ modal # None
    /\ modal.kind = "delete"
    /\ Len(pendingMut) < MaxPendingDeletes
    /\ pendingMut' = Append(pendingMut, Request("delete", modal.target, "none"))
    /\ busy' = [busy EXCEPT !["delete"] = TRUE]
    /\ ev' = [Ev("confirm") EXCEPT !.id = modal.target.id, !.op = "delete"]
    /\ UNCHANGED <<items, endCursor, hasNextPage, totalCount, flags, error, cursor, starsMode,
                   filter, visibilityFilter, sortDir, searchTimer, modal, mounted,
                   inflight, cache, fetchedAt, now, remote, used, vlVars, keyVars, hookVars,
                   metaReadable>>

\* GitHub answers 204 to a DELETE of a repository that exists
DeleteAnswered204 == MutationSucceeds /\ remote[ev'.id] # Gone

NextDelete ==
    \/ MoveCursor
    \/ OpenModal
    \/ CancelModal
    \/ ConfirmDeleteNow
    \/ DeleteAnswered204
    \/ MutationFails

SpecDelete == InitScroll /\ [][NextDelete]_vars

\* C38: no two delete requests for the same repository are in flight together.
C38_OneDeletePerTarget ==
    \A i, j \in 1..Len(pendingMut) :
        (i # j /\ pendingMut[i].kind = "delete" /\ pendingMut[j].kind = "delete")
            => pendingMut[i].target.id # pendingMut[j].target.id

\* a fetch for the source is in flight
InFlightFor(src) == \E i \in 1..Len(inflight) : inflight[i].src = src

\* the safety part of C39: once the view has started its first fetch, a source
\* with no fetch in flight shows none of its loading indicators
C39_IdleSourceNotLoading ==
    mounted => \A src \in Sources : ~InFlightFor(src) => ~LoadingShown(src)

\* ------------------------------------------------------------------ SpecScrollLive
\* The promise a fetch awaits settles: a request that is not answered is
\* rejected by the HTTP client (connection error or timeout) and the catch
\* block runs, so no fetch stays in flight for ever.
SpecScrollLive == InitScroll /\ [][NextScroll]_vars /\ WF_vars(FetchFails)

MaxValidations == 2      \* runs of the validation effect
MaxOAuthRuns == 2        \* runs of the OAuth effect

AppFrame == UNCHANGED <<mainVars, vlVars, keyVars, pf, rr, ms, launch>>

AppEvOf(kind, token, cancelled) == [kind |-> kind, token |-> token, cancelled |-> cancelled]

\* setAppState(new), then the effects whose dependencies changed: the validation
\* effect on [mode, token] and the OAuth effect on [mode]. Neither effect has
\* a cleanup, so the runs in vals and oas go on.
SetAppState(new, vals, oas) ==
    LET startsValidation ==
            new.mode = "validating"
            /\ (appState.mode # "validating" \/ appState.token # new.token)
        startsOAuth == new.mode = "oauth_flow" /\ appState.mode # "oauth_flow"
    IN /\ startsValidation => authUsed.validations < MaxValidations
       /\ startsOAuth => authUsed.oauthRuns < MaxOAuthRuns
       /\ appState' = new
       /\ validations' =
             IF startsValidation
             THEN Append(vals, [id |-> authUsed.validations + 1, token |-> new.token,
                                origin |-> new.origin, timer |-> TRUE, cancelled |-> FALSE])
             ELSE vals
       /\ oauthRuns' = IF startsOAuth
                       THEN Append(oas, [id |-> authUsed.oauthRuns + 1, stage |-> "polling",
                                         cancelled |-> FALSE])
                       ELSE oas
       /\ authUsed' = [validations |-> authUsed.validations + (IF startsValidation THEN 1 ELSE 0),
                       oauthRuns |-> authUsed.oauthRuns + (IF startsOAuth THEN 1 ELSE 0)]

InitApp ==
    /\ appState = AppBase
    /\ storedToken \in {NoToken, "stored"}
    /\ launch \in [inlineToken : {NoToken, "cli"}, inlineTokenEphemeral : BOOLEAN,
                    env : {NoToken, "env"}]
    /\ validations = <<>>
    /\ oauthRuns = <<>>
    /\ authUsed = [validations |-> 0, oauthRuns |-> 0]
    /\ appEv = AppEvBase
    /\ pf = PfOf(0, 0, FALSE, FALSE, FALSE, FALSE) /\ rr = NoRead /\ ms = ModalInit
    /\ InitMain(FALSE)
    /\ metaReadable = TRUE
    /\ VLQuiet /\ KeysQuiet

\* "Initialize authentication: check for tokens in order of precedence"
InitializeAuth ==
    /\ appState.mode = "checking"
    /\ SetAppState(IF launch.inlineToken # NoToken
                      THEN toValidating(launch.inlineToken, "cli", FALSE, FALSE)
                   ELSE IF launch.env # NoToken
                      THEN toValidating(launch.env, "env", FALSE, FALSE)
                   ELSE IF storedToken # NoToken
                      THEN toValidating(storedToken, "stored", FALSE, FALSE)
                   ELSE toAuthMethodSelection,
                   validations, oauthRuns)
    /\ appEv' = AppEvOf("start", NoToken, FALSE)
    /\ UNCHANGED storedToken
    /\ AppFrame

handleAuthMethodSelect ==
    /\ appState.mode = "auth_method_selection"
    /\ \E method \in {"pat", "oauth"} :
          SetAppState(IF method = "pat" THEN toPrompt ELSE toOauthFlow("initializing"),
                      validations, oauthRuns)
    /\ appEv' = AppEvOf("select", NoToken, FALSE)
    /\ UNCHANGED storedToken
    /\ AppFrame

\* the token typed at the prompt is submitted
onSubmitToken ==
    /\ appState.mode = "prompt"
    /\ SetAppState(toValidating("prompt", "prompt", FALSE, FALSE), validations, oauthRuns)
    /\ appEv' = AppEvOf("submit", "prompt", FALSE)
    /\ UNCHANGED storedToken
    /\ AppFrame

\* history: the user has cancelled the run on screen, the one started last
MarkCancelled(runs, latest) ==
    [i \in 1..Len(runs) |-> IF runs[i].id = latest THEN [runs[i] EXCEPT !.cancelled = TRUE]
                            ELSE runs[i]]

\* Esc while validating: back to the rate-limited screen or to the selection
CancelValidation ==
    /\ appState.mode = "validating"
    /\ SetAppState(IF appState.wasRateLimited \/ appState.reset
                   THEN toRateLimited(appState.reset, appState.token, appState.wasRateLimited)
                   ELSE toAuthMethodSelection,
                   MarkCancelled(validations, authUsed.validations), oauthRuns)
    /\ appEv' = AppEvOf("cancel", appState.token, FALSE)
    /\ UNCHANGED storedToken
    /\ AppFrame

\* Esc during the OAuth flow
CancelOAuth ==
    /\ appState.mode = "oauth_flow"
    /\ SetAppState(toAuthMethodSelection, validations, MarkCancelled(oauthRuns, authUsed.oauthRuns))
    /\ appEv' = AppEvOf("cancel", NoToken, FALSE)
    /\ UNCHANGED storedToken
    /\ AppFrame

\* R on the rate-limited screen: "Retry with current token"
RetryValidation ==
    /\ appState.mode = "rate_limited"
    /\ SetAppState(toValidating(appState.token, "stored", appState.wasRateLimited, appState.reset),
                   validations, oauthRuns)
    /\ appEv' = AppEvOf("retry", appState.token, FALSE)
    /\ UNCHANGED storedToken
    /\ AppFrame

\* Ctrl+L in the list (onLogout) or L on the rate-limited screen
handleLogout ==
    /\ appState.mode \in {"ready", "rate_limited"}
    /\ storedToken' = NoToken                      \* clearAllSettings
    /\ SetAppState(toAuthMethodSelection, validations, oauthRuns)
    /\ appEv' = AppEvOf("logout", appState.token, FALSE)
    /\ AppFrame

\* getViewerLogin resolves
ValidationSucceeds ==
    \E i \in 1..Len(validations) :
        LET run == validations[i]
            hadStored == storedToken # NoToken
            shouldPersist == /\ ~hadStored
                             /\ ~launch.inlineTokenEphemeral
                             /\ run.origin \in {"prompt", "oauth"}
        IN /\ storedToken' = IF shouldPersist THEN run.token ELSE storedToken
           /\ SetAppState(toReady(run.token, run.origin), Without(validations, i), oauthRuns)
           /\ appEv' = AppEvOf("valOk", run.token, run.cancelled)
           /\ AppFrame

\* getViewerLogin rejects: a rate limit (with or without a reset time), or any
\* other error
ValidationFails ==
    \E i \in 1..Len(validations) : \E isRateLimit \in BOOLEAN, resetTime \in BOOLEAN :
        LET run == validations[i]
        IN /\ ~isRateLimit => ~resetTime
           /\ storedToken' = IF ~isRateLimit /\ run.origin = "stored" THEN NoToken
                              ELSE storedToken
           /\ SetAppState(IF isRateLimit THEN toRateLimited(resetTime, run.token, TRUE)
                          ELSE toAuthMethodSelection,
                          Without(validations, i), oauthRuns)
           /\ appEv' = AppEvOf("valFail", run.token, run.cancelled)
           /\ AppFrame

\* the 15 s timer of a run fires before getViewerLogin has settled
ValidationTimesOut ==
    \E i \in 1..Len(validations) :
        /\ validations[i].timer
        /\ SetAppState(toAuthMethodSelection,
                       [validations EXCEPT ![i].timer = FALSE], oauthRuns)
        /\ appEv' = AppEvOf("valTimeout", validations[i].token, validations[i].cancelled)
        /\ UNCHANGED storedToken
        /\ AppFrame

\* the stale closure of updateOAuthFlow: its appState is the oauth_flow state of
\* the render that started the run, so the update always applies
updateOAuthFlow(status) == toOauthFlow(status)

\* the flow advances to polling: updateOAuthFlow({status: ...})
OAuthProgress ==
    \E j \in 1..Len(oauthRuns) :
        /\ oauthRuns[j].stage = "polling"
        /\ appState # updateOAuthFlow("polling_for_token")
        /\ SetAppState(updateOAuthFlow("polling_for_token"), validations, oauthRuns)
        /\ appEv' = AppEvOf("oauthProgress", NoToken, oauthRuns[j].cancelled)
        /\ UNCHANGED storedToken
        /\ AppFrame

\* pollForAccessToken returns a token and a login: the token is stored
OAuthGranted ==
    \E j \in 1..Len(oauthRuns) :
        /\ oauthRuns[j].stage = "polling"
        /\ storedToken' = "oauth"
        /\ SetAppState(updateOAuthFlow("success"), validations,
                       [oauthRuns EXCEPT ![j].stage = "granted"])
        /\ appEv' = AppEvOf("oauthGranted", "oauth", oauthRuns[j].cancelled)
        /\ AppFrame

\* one second later: transitionTo.ready
OAuthReady ==
    \E j \in 1..Len(oauthRuns) :
        /\ oauthRuns[j].stage = "granted"
        /\ SetAppState(toReady("oauth", "oauth"), validations, Without(oauthRuns, j))
        /\ appEv' = AppEvOf("oauthReady", "oauth", oauthRuns[j].cancelled)
        /\ UNCHANGED storedToken
        /\ AppFrame

\* the device code request or the polling fails: the catch block
OAuthFails ==
    \E j \in 1..Len(oauthRuns) :
        /\ oauthRuns[j].stage = "polling"
        /\ SetAppState(updateOAuthFlow("error"), validations, Without(oauthRuns, j))
        /\ appEv' = AppEvOf("oauthFail", NoToken, oauthRuns[j].cancelled)
        /\ UNCHANGED storedToken
        /\ AppFrame

NextApp ==
    \/ InitializeAuth
    \/ handleAuthMethodSelect
    \/ onSubmitToken
    \/ CancelValidation
    \/ CancelOAuth
    \/ RetryValidation
    \/ handleLogout
    \/ ValidationSucceeds
    \/ ValidationFails
    \/ ValidationTimesOut
    \/ OAuthProgress
    \/ OAuthGranted
    \/ OAuthReady
    \/ OAuthFails

SpecApp == InitApp /\ [][NextApp]_vars

\* C35: a validation that fails clears the stored token only when the token
\* that failed came from storage.
C35_OnlyStoredTokenFailureClears ==
    [][(appEv'.kind = "valFail" /\ storedToken # NoToken /\ storedToken' = NoToken)
          => appEv'.token = "stored"]_vars

\* the steps a run of the validation effect or of the OAuth effect takes
RunSteps == {"valOk", "valFail", "valTimeout",
             "oauthProgress", "oauthGranted", "oauthReady", "oauthFail"}

\* C40: a step of a run that the user has cancelled changes neither the
\* application state nor the stored token, and the ready state is left through
\* logout only.
C40_CancelledRunsAreInert ==
    [][/\ (appEv'.kind \in RunSteps /\ appEv'.cancelled)
            => (appState' = appState /\ storedToken' = storedToken)
       /\ (appState.mode = "ready" /\ appState'.mode # "ready")
            => appEv'.kind = "logout"]_vars

====
